---------------------------- MODULE Spec2Model ----------------------------
(***************************************************************************)
(* A model of SpeakMCPMobile's two core components:                        *)
(*   - OpenAIClient.chat (src/src/lib/openaiClient.ts): the classification *)
(*     of the HTTP response and the two event-stream parsers (the buffered *)
(*     fallback and the incremental reader);                               *)
(*   - the voice capture handlers of ChatScreen                            *)
(*     (src/src/screens/ChatScreen.tsx).                                   *)
(*                                                                         *)
(* Text is a sequence of atoms.  The atoms of a response body are          *)
(*   "LF" "CR" "SP"      the characters \n, \r and space                   *)
(*   "DATA"              the five characters  data:                        *)
(*   "DONE"              the text  [DONE]                                  *)
(*   "QDONE"             the text  "[DONE]"  (a JSON string)               *)
(*   "NOISE"             a run of text that is not JSON (": ping")         *)
(*   a name of Json      the text of one JSON object                       *)
(* and the atoms of a token (the value of a content field) are             *)
(*   "a" "b" "h" "i"     letters                                           *)
(*   "SP"                a space                                           *)
(*   "LB"                an opening brace that starts no valid JSON        *)
(*   "OP"                the text  {"type":"data-operation"}               *)
(*   "OBJ"               the text  {"type":"text"}                         *)
(***************************************************************************)
EXTENDS Integers, Sequences, FiniteSets, TLC

\* ------------------------------------------------------------------------
\* Bounds
\* ------------------------------------------------------------------------

\* The largest number of events in an event-stream body.
MaxEvents == 3

\* The largest number of atoms one reader.read() delivers, unless it
\* delivers all that is left of the body.
MaxChunk == 1

\* The largest number of capture attempts (runs of startRecording past its
\* guard) in a behaviour.
MaxSessions == 2

\* The largest number of result events the recognizer delivers in a
\* behaviour.
MaxResults == 2

\* The largest number of calls of the screen's send in a behaviour.
MaxSends == 2

\* The largest number of calls of the screen's token callback in a
\* behaviour.
MaxTokens == 1

\* The largest number of calls of loadSessions after the one made when the
\* store is mounted.
MaxLoads == 1

\* The largest number of sessions createNewSession makes in a behaviour.
MaxCreated == 1

\* The largest number of messages the store's operations put in a session
\* beyond those it was loaded with.
MaxAdded == 1

\* ------------------------------------------------------------------------
\* Text
\* ------------------------------------------------------------------------

\* The characters String.prototype.trim, the regex class \s and JSON.parse
\* treat as white space, among the atoms of the model.
IsWs(c) == c \in {"SP", "CR", "LF"}

RECURSIVE TrimLeft(_)
TrimLeft(s) == IF s # <<>> /\ IsWs(Head(s)) THEN TrimLeft(Tail(s)) ELSE s

RECURSIVE TrimRight(_)
TrimRight(s) ==
    IF s # <<>> /\ IsWs(s[Len(s)]) THEN TrimRight(SubSeq(s, 1, Len(s) - 1)) ELSE s

\* String.prototype.trim
Trim(s) == TrimRight(TrimLeft(s))

RECURSIVE Flatten(_)
Flatten(ss) == IF ss = <<>> THEN <<>> ELSE Head(ss) \o Flatten(Tail(ss))

At(s, i) == IF i >= 1 /\ i <= Len(s) THEN s[i] ELSE "EOF"

\* The length of the match of a delimiter that starts at position i of s,
\* 0 when none starts there:
\*   "lflf"   the string '\n\n'          (buffer.indexOf)
\*   "lf"     the string '\n'            (chunk.split)
\*   "line"   the regex /\r?\n/          (chunk.split)
\*   "blank"  the regex /\r?\n\r?\n/     (text.split)
MatchLen(mode, s, i) ==
    CASE mode = "lflf" -> IF At(s, i) = "LF" /\ At(s, i + 1) = "LF" THEN 2 ELSE 0
      [] mode = "lf" -> IF At(s, i) = "LF" THEN 1 ELSE 0
      [] mode = "line" ->
            IF At(s, i) = "CR" /\ At(s, i + 1) = "LF" THEN 2
            ELSE IF At(s, i) = "LF" THEN 1 ELSE 0
      [] mode = "blank" ->
            LET j == IF At(s, i) = "CR" THEN i + 1 ELSE i
                k == IF At(s, j + 1) = "CR" THEN j + 2 ELSE j + 1
            IN  IF At(s, j) = "LF" /\ At(s, k) = "LF" THEN k - i + 1 ELSE 0

\* String.prototype.split: the pieces of s between the matches of the
\* delimiter, empty pieces kept, scanning from the left.
RECURSIVE SplitFrom(_, _, _, _)
SplitFrom(mode, s, i, start) ==
    IF i > Len(s) THEN << SubSeq(s, start, Len(s)) >>
    ELSE LET m == MatchLen(mode, s, i)
         IN  IF m > 0
             THEN << SubSeq(s, start, i - 1) >> \o SplitFrom(mode, s, i + m, i + m)
             ELSE SplitFrom(mode, s, i + 1, start)

Split(mode, s) == SplitFrom(mode, s, 1, 1)

\* String.prototype.indexOf('\n\n'), 1-based; 0 when absent.
RECURSIVE IndexOfFrom(_, _)
IndexOfFrom(s, i) ==
    IF i > Len(s) THEN 0
    ELSE IF MatchLen("lflf", s, i) > 0 THEN i ELSE IndexOfFrom(s, i + 1)

IndexOf(s) == IndexOfFrom(s, 1)

\* l.replace(/^data:\s?/, '')
StripData(l) ==
    IF l # <<>> /\ Head(l) = "DATA"
    THEN LET r == Tail(l) IN IF r # <<>> /\ IsWs(Head(r)) THEN Tail(r) ELSE r
    ELSE l

\* ------------------------------------------------------------------------
\* JSON
\* ------------------------------------------------------------------------

\* The JSON objects a body may carry.  cid is conversation_id, delta is
\* choices[0].delta.content and msg is choices[0].message.content; "" and
\* <<>> stand for a field that is absent or the empty string, which the
\* code does not tell apart (it tests truthiness and length).  msgStr is
\* FALSE when choices[0].message.content is present and is not a string.
Json ==
    [ Ja   |-> [cid |-> "",   delta |-> <<"a">>,        msg |-> <<>>,         msgStr |-> TRUE],
      Jb   |-> [cid |-> "c1", delta |-> <<"b">>,        msg |-> <<>>,         msgStr |-> TRUE],
      Jc   |-> [cid |-> "c2", delta |-> <<>>,           msg |-> <<>>,         msgStr |-> TRUE],
      Jm   |-> [cid |-> "c2", delta |-> <<>>,           msg |-> <<"a">>,      msgStr |-> TRUE],
      Jop  |-> [cid |-> "",   delta |-> <<"SP", "OP">>, msg |-> <<>>,         msgStr |-> TRUE],
      Jobj |-> [cid |-> "",   delta |-> <<"OBJ">>,      msg |-> <<>>,         msgStr |-> TRUE],
      Jlb  |-> [cid |-> "",   delta |-> <<"LB", "a">>,  msg |-> <<>>,         msgStr |-> TRUE],
      Jhi  |-> [cid |-> "c1", delta |-> <<>>,           msg |-> <<"h", "i">>, msgStr |-> TRUE],
      Jarr |-> [cid |-> "",   delta |-> <<>>,           msg |-> <<>>,         msgStr |-> FALSE] ]

\* What JSON.parse yields for a value that is not an object with any of the
\* fields the client reads.
NoFields == [cid |-> "", delta |-> <<>>, msg |-> <<>>, msgStr |-> TRUE]

\* JSON.parse(l): white space around the value is allowed; the text must be
\* exactly one JSON value.
ParseJSON(l) ==
    LET t == Trim(l)
    IN  IF Len(t) = 1 /\ t[1] \in DOMAIN Json THEN [ok |-> TRUE, obj |-> Json[t[1]]]
        ELSE IF t = <<"QDONE">> THEN [ok |-> TRUE, obj |-> NoFields]
        ELSE [ok |-> FALSE, obj |-> NoFields]


\* ------------------------------------------------------------------------
\* OpenAIClient.chat: the handling of one payload line
\* ------------------------------------------------------------------------

\* The state of a parse: finalText, the calls made to onToken (tokens), the
\* running responseConversationId (cid), whether the termination marker made
\* chat return (done), and a record of the payload lines handled so far, in
\* order, each with what the parse of it yielded (log).
ParseState(conversationId) ==
    [finalText |-> <<>>, tokens |-> <<>>, cid |-> conversationId,
     done |-> FALSE, log |-> <<>>]

\* Mutation of IsDone: the JSON-quoted marker is not recognised.
IsDoneBareOnly(l) == l = <<"DONE">>

\* l === '[DONE]' || l === '"[DONE]"'
IsDone(l) == l = <<"DONE">> \/ l = <<"QDONE">>

\* Mutation of UpdateConversationId: the first value received is kept.
KeepFirstConversationId(cur, obj) ==
    IF cur = "" /\ obj.cid # "" THEN obj.cid ELSE cur

\* if (obj?.conversation_id) responseConversationId = obj.conversation_id
UpdateConversationId(cur, obj) == IF obj.cid # "" THEN obj.cid ELSE cur

\* token.trim().startsWith('{')
StartsWithBrace(token) ==
    Trim(token) # <<>> /\ Head(Trim(token)) \in {"LB", "OP", "OBJ"}

\* JSON.parse(token), for the inner parse of a token: the value's type
\* field when the token is one JSON object, "" when it has none, and
\* ok FALSE when the parse throws.
ParseToken(token) ==
    LET t == Trim(token)
    IN  IF Len(t) = 1 /\ t[1] = "OP" THEN [ok |-> TRUE, type |-> "data-operation"]
        ELSE IF Len(t) = 1 /\ t[1] = "OBJ" THEN [ok |-> TRUE, type |-> "text"]
        ELSE [ok |-> FALSE, type |-> ""]

\* Mutation of IsDataOperation: every token that starts with a brace is
\* dropped.
IsDataOperationAnyBrace(token) == StartsWithBrace(token)

\* The token filter: the token, trimmed, starts with '{', JSON.parse(token)
\* succeeds and inner?.type === 'data-operation'.
IsDataOperation(token) ==
    /\ StartsWithBrace(token)
    /\ ParseToken(token).ok
    /\ ParseToken(token).type = "data-operation"

\* Mutation of Emit: the text is accumulated and onToken is not called.
EmitNoCallback(st, token) == [st EXCEPT !.finalText = @ \o token]

\* finalText += token; onToken?.(token)
Emit(st, token) ==
    [st EXCEPT !.finalText = @ \o token, !.tokens = Append(@, token)]

\* The buffered fallback's token: delta.content, and when that is absent or
\* empty, a truthy choices[0].message.content (a string or not).
FallbackToken(obj) ==
    IF obj.delta # <<>> THEN [str |-> TRUE, text |-> obj.delta]
    ELSE IF ~obj.msgStr THEN [str |-> FALSE, text |-> <<>>]
    ELSE [str |-> TRUE, text |-> obj.msg]

\* The incremental reader's token: delta.content alone.
ReaderToken(obj) == [str |-> TRUE, text |-> obj.delta]

\* The body of the try block, after the token is extracted: the running
\* conversation id, the filter, and the append.
HandleObject(st, l, obj, token) ==
    LET st1 == [st EXCEPT !.cid = UpdateConversationId(@, obj),
                          !.log = Append(@, [line |-> l, parsed |-> TRUE,
                                             cid |-> obj.cid,
                                             token |-> token.text])]
    IN  IF token.str /\ Len(token.text) > 0
        THEN IF IsDataOperation(token.text) THEN st1 ELSE Emit(st1, token.text)
        ELSE st1

\* Mutation of IgnoreLine: a line that cannot be parsed ends the parse.
IgnoreLineStops(st, l) ==
    [st EXCEPT !.done = TRUE,
               !.log = Append(@, [line |-> l, parsed |-> FALSE,
                                  cid |-> "", token |-> <<>>])]

\* A line for which JSON.parse throws: the catch block ignores it.
IgnoreLine(st, l) ==
    [st EXCEPT !.log = Append(@, [line |-> l, parsed |-> FALSE,
                                  cid |-> "", token |-> <<>>])]

\* The termination marker: chat returns.
ReturnAtDone(st, l) ==
    [st EXCEPT !.done = TRUE,
               !.log = Append(@, [line |-> l, parsed |-> FALSE,
                                  cid |-> "", token |-> <<>>])]

\* One iteration of  for (const l of lines)  in the buffered fallback.
FallbackLine(st, l) ==
    IF IsDone(l) THEN ReturnAtDone(st, l)
    ELSE LET p == ParseJSON(l)
         IN  IF p.ok THEN HandleObject(st, l, p.obj, FallbackToken(p.obj))
             ELSE IgnoreLine(st, l)

\* One iteration of  for (const l of lines)  in the incremental reader.
ReaderLine(st, l) ==
    IF l = <<>> THEN st
    ELSE IF IsDone(l) THEN ReturnAtDone(st, l)
    ELSE LET p == ParseJSON(l)
         IN  IF p.ok THEN HandleObject(st, l, p.obj, ReaderToken(p.obj))
             ELSE IgnoreLine(st, l)

\* for (const l of lines) ..., left at once when chat returns.
RECURSIVE FallbackLines(_, _)
FallbackLines(st, lines) ==
    IF lines = <<>> \/ st.done THEN st
    ELSE FallbackLines(FallbackLine(st, Head(lines)), Tail(lines))

RECURSIVE ReaderLines(_, _)
ReaderLines(st, lines) ==
    IF lines = <<>> \/ st.done THEN st
    ELSE ReaderLines(ReaderLine(st, Head(lines)), Tail(lines))

NonEmpty(l) == l # <<>>

\* l => l.replace(/^data:\s?/, '').trim()
StripTrim(l) == Trim(StripData(l))

\* chunk.split(/\r?\n/).map(l => l.replace(/^data:\s?/, '').trim()).filter(Boolean)
FallbackSplitLines(chunk) ==
    LET pieces == Split("line", chunk)
    IN  SelectSeq([i \in 1..Len(pieces) |-> StripTrim(pieces[i])], NonEmpty)

\* chunk.split('\n').map(l => l.replace(/^data:\s?/, ''))
ReaderSplitLines(chunk) ==
    LET pieces == Split("lf", chunk)
    IN  [i \in 1..Len(pieces) |-> StripData(pieces[i])]

\* for (const chunk of chunks) ... of the buffered fallback.
RECURSIVE FallbackChunks(_, _)
FallbackChunks(st, chunks) ==
    IF chunks = <<>> \/ st.done THEN st
    ELSE FallbackChunks(FallbackLines(st, FallbackSplitLines(Head(chunks))),
                        Tail(chunks))

\* The buffered fallback over the whole body text.
ChatFallback(text, conversationId) ==
    FallbackChunks(ParseState(conversationId), Split("blank", text))

\* while ((idx = buffer.indexOf('\n\n')) !== -1) ... of the incremental
\* reader: the parse state and the buffer after every complete event of the
\* buffer is handled.
RECURSIVE DrainBuffer(_, _)
DrainBuffer(st, buf) ==
    LET idx == IndexOf(buf)
    IN  IF st.done \/ idx = 0 THEN [st |-> st, buffer |-> buf]
        ELSE LET chunk == Trim(SubSeq(buf, 1, idx - 1))
                 rest  == SubSeq(buf, idx + 2, Len(buf))
             IN  IF chunk = <<>> THEN DrainBuffer(st, rest)
                 ELSE DrainBuffer(ReaderLines(st, ReaderSplitLines(chunk)), rest)

\* Mutation of NonSSEContent: the content field is returned whatever its
\* type.
NonSSEContentAlwaysField(text) ==
    LET p == ParseJSON(text) IN IF p.ok THEN p.obj.msg ELSE text

\* The non-event-stream branch: JSON.parse(text), then
\* typeof content === 'string' ? content : text, with content
\* j?.choices?.[0]?.message?.content ?? ''; the raw text when the parse throws.
NonSSEContent(text) ==
    LET p == ParseJSON(text)
    IN  IF p.ok THEN (IF p.obj.msgStr THEN p.obj.msg ELSE text) ELSE text

NonSSEConversationId(text, conversationId) ==
    LET p == ParseJSON(text)
    IN  IF p.ok THEN UpdateConversationId(conversationId, p.obj) ELSE conversationId


\* ------------------------------------------------------------------------
\* The responses a server may give
\* ------------------------------------------------------------------------

DataLine(p) == <<"DATA", "SP", p>>

\* The same line without the optional space after the colon.
DataLineNoSpace(p) == <<"DATA", p>>

\* The events of an event-stream body: payload lines and what ends them.
\* Ebr holds two lines; Enoise is a line that is not JSON, followed by one
\* line break, so that it shares its event with the line after it; Ecr is
\* framed with \r\n\r\n; Etail has nothing after its line.
EventText ==
    [ Ea     |-> DataLine("Ja")           \o <<"LF", "LF">>,
      Eb     |-> DataLineNoSpace("Jb")    \o <<"LF", "LF">>,
      Em     |-> DataLineNoSpace("Jm")    \o <<"LF", "LF">>,
      Eop    |-> DataLineNoSpace("Jop")   \o <<"LF", "LF">>,
      Ebr    |-> DataLineNoSpace("Jobj")  \o <<"LF">> \o
                 DataLineNoSpace("Jlb")   \o <<"LF", "LF">>,
      Edone  |-> DataLine("DONE")         \o <<"LF", "LF">>,
      Eqdone |-> DataLineNoSpace("QDONE") \o <<"LF", "LF">>,
      Enoise |-> <<"NOISE", "LF">>,
      Ecr    |-> DataLineNoSpace("Ja")    \o <<"CR", "LF", "CR", "LF">>,
      Etail  |-> DataLineNoSpace("Jb") ]

EventNames == DOMAIN EventText

EventSeqs == UNION { [1..n -> EventNames] : n \in 0..MaxEvents }

BodyOf(evs) == Flatten([i \in 1..Len(evs) |-> EventText[evs[i]]])

\* The bodies of a response that is not an event stream: JSON with a string
\* content, JSON with white space around it, JSON without the field, JSON
\* whose content is not a string, text that is not JSON, and an
\* event-stream body sent under another content type.
NonSSEBodies ==
    { <<"Jhi">>, <<"SP", "Jm", "LF">>, <<"Jc">>, <<"Jarr">>, <<"NOISE">>,
      <<"NOISE", "SP", "NOISE">>, EventText["Ea"], <<>> }

\* The bodies of a response whose status is not successful.
ErrorBodies == { <<"NOISE">>, <<"Jhi">>, EventText["Ea"] \o EventText["Edone"], <<>> }

Statuses == {200, 404, 500}

\* Response.ok
Ok(status) == status >= 200 /\ status <= 299

\* The conversationId argument of chat: none, or a known one.
ConversationIds == {"", "c0"}

\* ------------------------------------------------------------------------
\* State
\* ------------------------------------------------------------------------

VARIABLES
    pc,        \* where chat is: "idle", "fetching", "reading", "done", "failed"
    convIn,    \* chat's conversationId argument
    request,   \* the request body's conversation_id: present or not, and its value
    resp,      \* the response: status, content type, reader support, body
    rest,      \* the part of the body the reader has not delivered yet
    buffer,    \* the incremental reader's buffer
    ps,        \* the parse state: finalText, onToken calls, conversation id, log
    ret,       \* what chat returned: content and conversationId
    err        \* what chat threw

chatVars == <<pc, convIn, request, resp, rest, buffer, ps, ret, err>>

VARIABLES
    env,               \* "native", "expoGo" (no native module), "web", "webNoSR"
    mounted,           \* the screen is mounted
    perm,              \* the speech permission: "granted", "prompt", "denied"
    handsFree,         \* config.handsFree
    handsFreeRef,
    listening,
    liveTranscript,
    liveTranscriptRef,
    willCancel,
    willCancelRef,
    input,             \* the editable draft
    startingRef,
    stoppingRef,
    nativeFinalRef,
    webFinalRef,
    webRecognitionRef, \* whether the web recognizer object exists
    srSubsRef,         \* whether the native result/error/end listeners are registered
    rec,               \* the recognizer: "off", "running", "stopping" (end pending)
    startPc,           \* where startRecording is suspended: "none", "import", "getPerm", "reqPerm"
    stopPc,            \* where stopRecordingAndHandle is suspended: "none", "import"
    pressed,           \* the finger is on the mic button
    dragged,           \* the finger moved past the cancel threshold during this press
    timers,            \* the pending deferred stops, each with the listening it captured
    outputs,           \* what was dispatched: sends and draft-appends, in order
    stopDuringStart,   \* a stop was issued while the start of this capture was in flight
    nStarts,
    nRecStarts,        \* calls of the recognizer's start so far
    nResults,
    ev                 \* the handler that ran last, with the event it was given

voiceVars ==
    <<env, mounted, perm, handsFree, handsFreeRef, listening, liveTranscript,
      liveTranscriptRef, willCancel, willCancelRef, input, startingRef,
      stoppingRef, nativeFinalRef, webFinalRef, webRecognitionRef, srSubsRef,
      rec, startPc, stopPc, pressed, dragged, timers, outputs, stopDuringStart, nStarts, nRecStarts,
      nResults, ev>>

VARIABLES
    sessions,                \* the session store: per session, serverConversationId and messages
    currentSessionId,        \* the store's current session, "none" when there is none
    sessionIdRef,
    serverConversationIdRef,
    messages,                \* the screen's transcript
    inflight,                \* the calls of send that await chat
    nSends,
    nTokens,
    received,                \* history: per session, the last id a response delivered
    sev,                     \* history: the step of send that ran last
    listeners                \* the recognizer's callbacks: whether startRecording
                             \* attached them, and the messages their send closes over

sendVars ==
    <<sessions, currentSessionId, sessionIdRef, serverConversationIdRef,
      messages, inflight, nSends, nTokens, received, sev, listeners>>

VARIABLES
    client,  \* the client's fields: cfg (trimmed base URL, key) and baseUrl (normalised)
    hPc,     \* where health is: "idle", "fetching", "returned", "threw"
    hReq,    \* the request health made
    hRes,    \* how fetch settled
    hRet     \* what health did: whether it threw, and the value it returned

healthVars == <<client, hPc, hReq, hRes, hRet>>

VARIABLES
    kPc,     \* where killSwitch is: "idle", "fetching", "returned", "threw"
    kReq,    \* the request killSwitch made
    kRes,    \* how fetch settled, and the body of the response
    kRet     \* what killSwitch did: whether it threw, and the result it returned

killVars == <<kPc, kReq, kRes, kRet>>

VARIABLES
    storedConfig,      \* AsyncStorage: the value under 'app_config_v1'
    config,            \* useConfig: config
    ready,             \* useConfig: ready
    storedSessions,    \* AsyncStorage: the value under 'speakmcp_sessions_v1'
    storedCurrent,     \* AsyncStorage: the value under 'speakmcp_current_session_v1'
    sessionList,       \* useSessionStore: sessions, in list order
    currentId,         \* useSessionStore: currentSessionId, "none" for null
    isLoading,
    loadPc,            \* where loadSessions is: "none", "called", "read"
    loaded,            \* what loadSessionsFromStorage resolved with
    savedCurrentId,    \* what loadCurrentSessionId resolved with
    nLoads,
    nCreated,
    nAdded,            \* calls that changed the content of a session so far
    created,           \* history: the ids createNewSession made and neither
                       \* deleteSession nor clearAllSessions was given
    stEv               \* history: the operation that ran last, and the store before it

storeVars ==
    <<storedConfig, config, ready, storedSessions, storedCurrent, sessionList,
      currentId, isLoading, loadPc, loaded, savedCurrentId, nLoads, nCreated,
      nAdded, created, stEv>>

vars == <<chatVars, voiceVars, sendVars, healthVars, killVars, storeVars>>

NoResponse ==
    [status |-> 0, sse |-> FALSE, reader |-> FALSE, readable |-> TRUE, body |-> <<>>]

NoReturn == [content |-> <<>>, conversationId |-> ""]

NoError == [kind |-> "none", status |-> 0, text |-> <<>>]

ChatInit ==
    /\ pc = "idle"
    /\ convIn = ""
    /\ request = [hasConversationId |-> FALSE, conversation_id |-> ""]
    /\ resp = NoResponse
    /\ rest = <<>>
    /\ buffer = <<>>
    /\ ps = ParseState("")
    /\ ret = NoReturn
    /\ err = NoError

\* ------------------------------------------------------------------------
\* OpenAIClient.chat
\* ------------------------------------------------------------------------

\* Mutation of HasConversationId: the field is always put in the body.
HasConversationIdAlways(conversationId) == TRUE

\* ...(conversationId && { conversation_id: conversationId })
HasConversationId(conversationId) == conversationId # ""

\* chat is called: the request body is built and fetch is started.
ChatCall ==
    /\ pc = "idle"
    /\ \E conversationId \in ConversationIds :
          /\ convIn' = conversationId
          /\ request' = [hasConversationId |-> HasConversationId(conversationId),
                         conversation_id |-> conversationId]
          /\ ps' = ParseState(conversationId)
    /\ pc' = "fetching"
    /\ UNCHANGED <<resp, rest, buffer, ret, err>>
    /\ UNCHANGED <<voiceVars, sendVars, healthVars, killVars, storeVars>>

\* fetch rejects (a network failure): the catch block rethrows.
FetchRejects ==
    /\ pc = "fetching"
    /\ err' = [kind |-> "network", status |-> 0, text |-> <<>>]
    /\ pc' = "failed"
    /\ UNCHANGED <<convIn, request, resp, rest, buffer, ps, ret>>
    /\ UNCHANGED <<voiceVars, sendVars, healthVars, killVars, storeVars>>

\* Mutation of ThrowNotOk: the status is not checked and the body text is
\* returned as content.
ReturnBodyWhenNotOk(r) ==
    /\ ret' = [content |-> r.body, conversationId |-> ps.cid]
    /\ pc' = "done"
    /\ UNCHANGED <<rest, buffer, ps, err>>

\* if (!res.ok): the body text is read ('' when reading it fails) and an
\* Error carrying the status and the text is thrown.
ThrowNotOk(r) ==
    /\ err' = [kind |-> "http", status |-> r.status,
               text |-> IF r.readable THEN r.body ELSE <<>>]
    /\ pc' = "failed"
    /\ UNCHANGED <<rest, buffer, ps, ret>>

ResponseNotOk ==
    /\ pc = "fetching"
    /\ \E status \in {s \in Statuses : ~Ok(s)}, body \in ErrorBodies,
          sse \in BOOLEAN, readable \in BOOLEAN :
          LET r == [status |-> status, sse |-> sse, reader |-> FALSE,
                    readable |-> readable, body |-> body]
          IN  /\ resp' = r
              /\ ThrowNotOk(r)
    /\ UNCHANGED <<convIn, request>>
    /\ UNCHANGED <<voiceVars, sendVars, healthVars, killVars, storeVars>>

\* if (!isSSE): the whole text is read and returned as parsed JSON content
\* or as raw text; onToken is not called.
ResponseNonSSE ==
    /\ pc = "fetching"
    /\ \E status \in {s \in Statuses : Ok(s)}, body \in NonSSEBodies :
          /\ resp' = [status |-> status, sse |-> FALSE, reader |-> FALSE,
                      readable |-> TRUE, body |-> body]
          /\ ret' = [content |-> NonSSEContent(body),
                     conversationId |-> NonSSEConversationId(body, ps.cid)]
    /\ pc' = "done"
    /\ UNCHANGED <<convIn, request, rest, buffer, ps, err>>
    /\ UNCHANGED <<voiceVars, sendVars, healthVars, killVars, storeVars>>

\* if (isSSE && !supportsReader): the whole text is read and parsed at once.
ResponseSSEFallback ==
    /\ pc = "fetching"
    /\ \E status \in {s \in Statuses : Ok(s)}, evs \in EventSeqs :
          LET body == BodyOf(evs)
              st   == ChatFallback(body, ps.cid)
          IN  /\ resp' = [status |-> status, sse |-> TRUE, reader |-> FALSE,
                          readable |-> TRUE, body |-> body]
              /\ ps' = st
              /\ ret' = [content |-> st.finalText, conversationId |-> st.cid]
    /\ pc' = "done"
    /\ UNCHANGED <<convIn, request, rest, buffer, err>>
    /\ UNCHANGED <<voiceVars, sendVars, healthVars, killVars, storeVars>>

\* The event stream with a reader: the decoder, the reader and the empty
\* buffer are set up.
ResponseSSEReader ==
    /\ pc = "fetching"
    /\ \E status \in {s \in Statuses : Ok(s)}, evs \in EventSeqs :
          LET body == BodyOf(evs)
          IN  /\ resp' = [status |-> status, sse |-> TRUE, reader |-> TRUE,
                          readable |-> TRUE, body |-> body]
              /\ rest' = body
    /\ buffer' = <<>>
    /\ pc' = "reading"
    /\ UNCHANGED <<convIn, request, ps, ret, err>>
    /\ UNCHANGED <<voiceVars, sendVars, healthVars, killVars, storeVars>>

\* Mutation of KeepTail: what is left of the buffer after a read is dropped.
DropTail(buf) == <<>>

\* buffer = buffer.slice(idx + 2): what follows the last complete event
\* stays in the buffer for the next read.
KeepTail(buf) == buf

\* reader.read() yields a chunk: it is appended to the buffer and every
\* complete event of the buffer is handled; chat returns when a line is the
\* termination marker.
Read ==
    /\ pc = "reading"
    /\ rest # <<>>
    /\ \E n \in 1..Len(rest) :
          /\ n <= MaxChunk \/ n = Len(rest)
          /\ LET d == DrainBuffer(ps, buffer \o SubSeq(rest, 1, n))
             IN  /\ ps' = d.st
                 /\ buffer' = KeepTail(d.buffer)
                 /\ rest' = SubSeq(rest, n + 1, Len(rest))
                 /\ IF d.st.done
                    THEN /\ pc' = "done"
                         /\ ret' = [content |-> d.st.finalText,
                                    conversationId |-> d.st.cid]
                    ELSE UNCHANGED <<pc, ret>>
    /\ UNCHANGED <<convIn, request, resp, err>>
    /\ UNCHANGED <<voiceVars, sendVars, healthVars, killVars, storeVars>>

\* reader.read() yields done: the loop is left and chat returns.
ReadDone ==
    /\ pc = "reading"
    /\ rest = <<>>
    /\ ret' = [content |-> ps.finalText, conversationId |-> ps.cid]
    /\ pc' = "done"
    /\ UNCHANGED <<convIn, request, resp, rest, buffer, ps, err>>
    /\ UNCHANGED <<voiceVars, sendVars, healthVars, killVars, storeVars>>

\* reader.read() rejects (the connection is lost): the catch block rethrows.
\* The response, the reader and the buffer are dropped with the call; the
\* calls already made to onToken stay made.
ReadRejects ==
    /\ pc = "reading"
    /\ err' = [kind |-> "network", status |-> 0, text |-> <<>>]
    /\ pc' = "failed"
    /\ resp' = NoResponse
    /\ rest' = <<>>
    /\ buffer' = <<>>
    /\ UNCHANGED <<convIn, request, ps, ret>>
    /\ UNCHANGED <<voiceVars, sendVars, healthVars, killVars, storeVars>>

ChatNext ==
    \/ ChatCall
    \/ FetchRejects
    \/ ResponseNotOk
    \/ ResponseNonSSE
    \/ ResponseSSEFallback
    \/ ResponseSSEReader
    \/ Read
    \/ ReadDone
    \/ ReadRejects


\* ------------------------------------------------------------------------
\* ChatScreen: voice capture
\*
\* React commits the state updates of a handler, and runs the effects that
\* copy handsFree, liveTranscript and willCancel into their refs, before
\* the next event is handled: each action sets a state variable and its ref
\* together.  A closure that outlives its render (the deferred stop of
\* onPressOut) keeps the listening it captured.
\* ------------------------------------------------------------------------

\* The transcripts the recognizer reports: none, a word after a space, and
\* a space alone.
Texts == { <<>>, <<"SP", "b">>, <<"SP">> }

\* The interim text of a web result event.
Interims == { <<>>, <<"a">> }

minHoldMs == 200

\* Date.now() - lastGrantTimeRef.current when the button is released.
HoldTimes == {50, 200, 350}

Max(a, b) == IF a >= b THEN a ELSE b

Envs == {"native", "expoGo", "web", "webNoSR"}

Perms == {"granted", "prompt", "denied"}

IsNativePlatform == env \in {"native", "expoGo"}

Event(name, text, final) ==
    [name |-> name, text |-> text, final |-> final, handsFree |-> handsFreeRef,
     dt |-> 0]

\* The release of the button after it was held for dt.
Release(dt) ==
    [name |-> "release", text |-> <<>>, final |-> FALSE,
     handsFree |-> handsFreeRef, dt |-> dt]

\* ev is the recognizer event or the release the last step handled, if it
\* handled one.
NoEvent ==
    [name |-> "none", text |-> <<>>, final |-> FALSE, handsFree |-> FALSE,
     dt |-> 0]

VoiceIdle ==
    /\ handsFreeRef = handsFree
    /\ listening = FALSE
    /\ liveTranscript = <<>>
    /\ liveTranscriptRef = <<>>
    /\ willCancel = FALSE
    /\ willCancelRef = FALSE
    /\ input = <<>>
    /\ startingRef = FALSE
    /\ stoppingRef = FALSE
    /\ nativeFinalRef = <<>>
    /\ webFinalRef = <<>>
    /\ webRecognitionRef = FALSE
    /\ srSubsRef = FALSE
    /\ mounted = TRUE
    /\ rec = "off"
    /\ startPc = "none"
    /\ stopPc = "none"
    /\ pressed = FALSE
    /\ dragged = FALSE
    /\ timers = {}
    /\ outputs = <<>>
    /\ nStarts = 0
    /\ stopDuringStart = FALSE
    /\ nRecStarts = 0
    /\ nResults = 0
    /\ ev = NoEvent

\* The permission is that of the native module: it is read nowhere else.
VoiceInit ==
    /\ env \in Envs
    /\ perm \in (IF env = "native" THEN Perms ELSE {"granted"})
    /\ handsFree \in BOOLEAN
    /\ VoiceIdle

\* setLiveTranscript(v), and the effect of line 168.
SetLiveTranscript(v) == liveTranscript' = v /\ liveTranscriptRef' = v

\* setWillCancel(v), and the effect of line 169.
SetWillCancel(v) == willCancel' = v /\ willCancelRef' = v

\* send(text): nothing when the text, trimmed, is empty; else the message
\* is dispatched.  Each dispatch is recorded with the handler that made
\* it, the mode, whether the finger had moved past the threshold, whether
\* it was still on the button, and the number of the capture session.
Send(outs, text, by) ==
    IF Trim(text) = <<>> THEN outs
    ELSE Append(outs, [kind |-> "send", text |-> text, by |-> by,
                       handsFree |-> handsFreeRef, dragged |-> dragged,
                       pressed |-> pressed, session |-> nStarts])

\* setInput((t) => (t ? `${t} ${finalText}` : finalText))
DraftAppend(t, finalText) ==
    IF t # <<>> THEN t \o <<"SP">> \o finalText ELSE finalText

Draft(outs, text, by) ==
    Append(outs, [kind |-> "draft", text |-> text, by |-> by,
                  handsFree |-> handsFreeRef, dragged |-> dragged,
                  pressed |-> pressed, session |-> nStarts])

\* Mutation of ResultDispatches: a final result is sent in every mode.
ResultDispatchesAlways(hf) == TRUE

\* Mutation of ResultDispatches: a final result is never sent at once.
ResultDispatchesNever(hf) == FALSE

\* if (handsFreeRef.current) of the result handlers: a final result is
\* sent at once.
ResultDispatches(hf) == hf

\* if (!handsFreeRef.current && finalText) of the end handlers.
EndDispatches(hf, finalText) == ~hf /\ finalText # <<>>

\* Mutation of ResolveNative: the live transcript is preferred.
ResolveNativeLiveFirst(final, live) == Trim(IF live # <<>> THEN live ELSE final)

\* (nativeFinalRef.current || liveTranscriptRef.current || '').trim()
ResolveNative(final, live) == Trim(IF final # <<>> THEN final ELSE live)

\* (webFinalRef.current || '').trim() || (liveTranscriptRef.current || '').trim()
ResolveWeb(final, live) == IF Trim(final) # <<>> THEN Trim(final) ELSE Trim(live)

\* ---- startRecording ----

\* Mutation of ListeningAfterWebStart: the screen never shows listening.
ListeningAfterWebStartNever(threw) == FALSE

\* setListening(true) of line 330, and setListening(false) of the catch
\* block of line 416 when the recognizer's start() threw.
ListeningAfterWebStart(threw) == ~threw

\* The variables startRecording and stopRecordingAndHandle write.
captureVars ==
    <<startingRef, stoppingRef, listening, liveTranscript, liveTranscriptRef,
      willCancel, willCancelRef, nativeFinalRef, webFinalRef,
      webRecognitionRef, rec, startPc, stopPc, stopDuringStart, nStarts, nRecStarts>>

\* startRecording up to its first await: the guard, the resets, and on the
\* web the whole of the function (ensureWebRecognizer and rec.start(), which
\* throws when the recognizer has not ended yet).
StartRecording ==
    IF startingRef \/ listening
    THEN UNCHANGED captureVars
    ELSE /\ nStarts' = nStarts + 1
         /\ stopDuringStart' = FALSE
         /\ SetWillCancel(FALSE)
         /\ SetLiveTranscript(<<>>)
         /\ nativeFinalRef' = <<>>
         /\ UNCHANGED <<stoppingRef, stopPc>>
         /\ CASE IsNativePlatform ->
                   /\ startingRef' = TRUE
                   /\ listening' = TRUE
                   /\ startPc' = "import"
                   /\ UNCHANGED <<webFinalRef, webRecognitionRef, rec,
                                  nRecStarts>>
              [] env = "web" ->
                   /\ webRecognitionRef' = TRUE
                   /\ webFinalRef' = <<>>
                   /\ startingRef' = FALSE
                   /\ listening' = ListeningAfterWebStart(rec # "off")
                   /\ rec' = IF rec = "off" THEN "running" ELSE rec
                   /\ nRecStarts' = nRecStarts + 1
                   /\ UNCHANGED startPc
              [] env = "webNoSR" ->
                   /\ startingRef' = FALSE
                   /\ listening' = FALSE
                   /\ UNCHANGED <<webFinalRef, webRecognitionRef, rec, startPc,
                                  nRecStarts>>

\* The native module is imported: the listeners are replaced by new ones
\* and the permission is queried.  Without the module the import rejects,
\* ensureWebRecognizer() is false and the attempt is given up.
StartAfterImport ==
    /\ startPc = "import"
    /\ IF env = "native"
       THEN /\ srSubsRef' = TRUE
            /\ startPc' = "getPerm"
            /\ UNCHANGED <<listening, startingRef>>
       ELSE /\ listening' = FALSE
            /\ startingRef' = FALSE
            /\ startPc' = "none"
            /\ UNCHANGED srSubsRef
    /\ ev' = NoEvent
    /\ UNCHANGED <<env, mounted, perm, handsFree, handsFreeRef, liveTranscript,
                   liveTranscriptRef, willCancel, willCancelRef, input,
                   stoppingRef, nativeFinalRef, webFinalRef, webRecognitionRef,
                   rec, stopPc, pressed, dragged, timers, outputs, stopDuringStart, nStarts, nRecStarts,
                   nResults>>
    /\ UNCHANGED <<chatVars, sendVars, healthVars, killVars, storeVars>>

\* ExpoSpeechRecognitionModule.start(...), in its try block, and
\* startingRef.current = false.  The call starts the recognizer, or it
\* throws and the catch block runs setListening(false).
NativeStart ==
    /\ startingRef' = FALSE
    /\ startPc' = "none"
    /\ nRecStarts' = nRecStarts + 1
    /\ \/ /\ rec' = "running"
          /\ UNCHANGED listening
       \/ /\ listening' = FALSE
          /\ UNCHANGED rec

\* Mutation of Granted: the answer is not looked at.
GrantedAlways(p) == TRUE

\* perm?.granted, req?.granted
Granted(p) == p = "granted"

\* getPermissionsAsync() resolves.
StartAfterGetPerm ==
    /\ startPc = "getPerm"
    /\ IF Granted(perm)
       THEN NativeStart
       ELSE /\ startPc' = "reqPerm"
            /\ UNCHANGED <<startingRef, rec, listening, nRecStarts>>
    /\ ev' = NoEvent
    /\ UNCHANGED <<env, mounted, perm, handsFree, handsFreeRef, liveTranscript,
                   liveTranscriptRef, willCancel, willCancelRef, input,
                   stoppingRef, nativeFinalRef, webFinalRef, webRecognitionRef,
                   srSubsRef, stopPc, pressed, dragged, timers, outputs,
                   stopDuringStart, nStarts, nResults>>
    /\ UNCHANGED <<chatVars, sendVars, healthVars, killVars, storeVars>>

\* Mutation of StartingAfterDenial: the refusal leaves the guard held.
StartingAfterDenialHeld(req) == TRUE

\* startingRef.current = false of line 382, before the return of the
\* refused request.
StartingAfterDenial(req) == FALSE

\* Mutation of ListeningAfterDenial: the refusal leaves the flag set.
ListeningAfterDenialKept(req) == TRUE

\* setListening(false) of line 381, on a refused request.
ListeningAfterDenial(req) == FALSE

\* requestPermissionsAsync() resolves: the user grants or refuses.
StartAfterReqPerm ==
    /\ startPc = "reqPerm"
    /\ \E req \in (IF perm = "prompt" THEN {"granted", "denied"}
                    ELSE {"denied"}) :
          /\ perm' = req
          /\ IF Granted(req)
             THEN NativeStart
             ELSE /\ listening' = ListeningAfterDenial(req)
                  /\ startingRef' = StartingAfterDenial(req)
                  /\ startPc' = "none"
                  /\ UNCHANGED <<rec, nRecStarts>>
    /\ ev' = NoEvent
    /\ UNCHANGED <<env, mounted, handsFree, handsFreeRef, liveTranscript,
                   liveTranscriptRef, willCancel, willCancelRef, input,
                   stoppingRef, nativeFinalRef, webFinalRef, webRecognitionRef,
                   srSubsRef, stopPc, pressed, dragged, timers, outputs,
                   stopDuringStart, nStarts, nResults>>
    /\ UNCHANGED <<chatVars, sendVars, healthVars, killVars, storeVars>>

\* ---- stopRecordingAndHandle ----

\* stopRecordingAndHandle up to its first await, called from a render whose
\* listening is l: the guard, and on the web the whole of the function.
StopRecordingAndHandle(l) ==
    LET hasWeb == ~IsNativePlatform /\ webRecognitionRef
    IN  IF stoppingRef
        THEN UNCHANGED captureVars
        ELSE IF ~l /\ ~hasWeb
        THEN /\ SetWillCancel(FALSE)
             /\ UNCHANGED <<startingRef, stoppingRef, listening, liveTranscript,
                            liveTranscriptRef, nativeFinalRef, webFinalRef,
                            webRecognitionRef, rec, startPc, stopPc, stopDuringStart, nStarts, nRecStarts>>
        ELSE IF IsNativePlatform
        THEN /\ stoppingRef' = TRUE
             /\ stopPc' = "import"
             /\ UNCHANGED <<startingRef, listening, liveTranscript,
                            liveTranscriptRef, willCancel, willCancelRef,
                            nativeFinalRef, webFinalRef, webRecognitionRef,
                            rec, startPc, nStarts, nRecStarts>>
             /\ stopDuringStart' = (stopDuringStart \/ startingRef)
        ELSE /\ rec' = IF hasWeb /\ rec = "running" THEN "stopping" ELSE rec
             /\ SetWillCancel(FALSE)
             /\ UNCHANGED <<startingRef, stoppingRef, listening, liveTranscript,
                            liveTranscriptRef, nativeFinalRef, webFinalRef,
                            webRecognitionRef, startPc, stopPc, stopDuringStart, nStarts, nRecStarts>>

\* The native module is imported by stopRecordingAndHandle: stop() is
\* called (nothing without the module), then the finally block runs.
StopAfterImport ==
    /\ stopPc = "import"
    /\ rec' = IF env = "native" /\ rec = "running" THEN "stopping" ELSE rec
    /\ SetWillCancel(FALSE)
    /\ stoppingRef' = FALSE
    /\ stopPc' = "none"
    /\ ev' = NoEvent
    /\ UNCHANGED <<env, mounted, perm, handsFree, handsFreeRef, listening,
                   liveTranscript, liveTranscriptRef, input, startingRef,
                   nativeFinalRef, webFinalRef, webRecognitionRef, srSubsRef,
                   startPc, pressed, dragged, timers, outputs, stopDuringStart, nStarts, nRecStarts,
                   nResults>>
    /\ UNCHANGED <<chatVars, sendVars, healthVars, killVars, storeVars>>

\* ---- the mic button ----

CanStart == startingRef \/ listening \/ nStarts < MaxSessions

\* onPress of the hands-free button: if (!listening) startRecording();
\* else stopRecordingAndHandle().
OnPress == IF ~listening THEN StartRecording ELSE StopRecordingAndHandle(listening)

\* The finger comes down on the button in manual mode.  onPressIn:
\* if (!listening) startRecording(e).
PressIn ==
    /\ mounted
    /\ ~handsFree
    /\ ~pressed
    /\ CanStart
    /\ pressed' = TRUE
    /\ dragged' = FALSE
    /\ IF ~listening THEN StartRecording ELSE UNCHANGED captureVars
    /\ ev' = NoEvent
    /\ UNCHANGED <<env, mounted, perm, handsFree, handsFreeRef, input, srSubsRef,
                   timers, outputs, nResults>>
    /\ UNCHANGED <<chatVars, sendVars, healthVars, killVars, storeVars>>

\* The finger moves past the cancel threshold while it holds the button
\* and a capture is under way.
\* The button has no handler for the movement.
Drag ==
    /\ mounted
    /\ pressed
    /\ ~dragged
    /\ listening \/ startingRef
    /\ dragged' = TRUE
    /\ ev' = NoEvent
    /\ UNCHANGED <<env, mounted, perm, handsFree, handsFreeRef, input, srSubsRef,
                   pressed, timers, outputs, nResults>>
    /\ UNCHANGED captureVars
    /\ UNCHANGED <<chatVars, sendVars, healthVars, killVars, storeVars>>

\* Mutation of Deferred: an early release schedules nothing.
DeferredDropped(ts, l) == ts

\* setTimeout(() => { if (listening) stopRecordingAndHandle(); }, delay):
\* the pending callbacks, each with the listening it captured; a callback
\* that captured false does nothing and is left out.
Deferred(ts, l) == IF l THEN ts \cup {l} ELSE ts

\* The finger is lifted in manual mode.  onPressOut stops at once when the
\* button was held for minHoldMs, and else defers the stop; the deferred
\* call keeps the listening of this render.
PressOut ==
    /\ mounted
    /\ pressed
    /\ pressed' = FALSE
    /\ \E dt \in HoldTimes :
          LET delay == Max(0, minHoldMs - dt)
          IN  /\ IF delay > 0
                 THEN /\ timers' = Deferred(timers, listening)
                      /\ UNCHANGED captureVars
                 ELSE /\ IF listening THEN StopRecordingAndHandle(listening)
                         ELSE UNCHANGED captureVars
                      /\ UNCHANGED timers
              /\ ev' = Release(dt)
    /\ UNCHANGED <<env, mounted, perm, handsFree, handsFreeRef, input, srSubsRef,
                   dragged, outputs, nResults>>
    /\ UNCHANGED <<chatVars, sendVars, healthVars, killVars, storeVars>>

\* The deferred stop runs: if (listening) stopRecordingAndHandle(), with
\* the listening of the render in which the button was released.
TimerFires ==
    /\ \E l \in timers :
          /\ timers' = timers \ {l}
          /\ IF l THEN StopRecordingAndHandle(l) ELSE UNCHANGED captureVars
    /\ ev' = NoEvent
    /\ UNCHANGED <<env, mounted, perm, handsFree, handsFreeRef, input, srSubsRef,
                   pressed, dragged, outputs, nResults>>
    /\ UNCHANGED <<chatVars, sendVars, healthVars, killVars, storeVars>>

\* The button is tapped in hands-free mode: onPress.
Tap ==
    /\ mounted
    /\ handsFree
    /\ ~pressed
    /\ CanStart
    /\ dragged' = FALSE
    /\ OnPress
    /\ ev' = NoEvent
    /\ UNCHANGED <<env, mounted, perm, handsFree, handsFreeRef, input, srSubsRef,
                   pressed, timers, outputs, nResults>>
    /\ UNCHANGED <<chatVars, sendVars, healthVars, killVars, storeVars>>

\* toggleHandsFree: next = !handsFreeRef.current, setConfig, and the effect
\* of line 33.  The switch is not tapped while a finger holds the mic
\* button.
ToggleHandsFree ==
    /\ mounted
    /\ ~pressed
    /\ handsFree' = ~handsFreeRef
    /\ handsFreeRef' = ~handsFreeRef
    /\ ev' = NoEvent
    /\ UNCHANGED <<env, mounted, perm, input, srSubsRef, pressed, dragged, timers,
                   outputs, nResults>>
    /\ UNCHANGED captureVars
    /\ UNCHANGED <<chatVars, sendVars, healthVars, killVars, storeVars>>

\* ---- the recognizer's events ----

RecognizerActive == rec \in {"running", "stopping"}

\* The native 'result' listener.
NativeResult(t, isFinal) ==
    /\ IF isFinal /\ t # <<>>
       THEN IF ResultDispatches(handsFreeRef)
            THEN /\ nativeFinalRef' = <<>>
                 /\ SetLiveTranscript(<<>>)
                 /\ outputs' = Send(outputs, Trim(t), "result")
            ELSE /\ nativeFinalRef' = t
                 /\ SetLiveTranscript(t)
                 /\ UNCHANGED outputs
       ELSE /\ SetLiveTranscript(IF t # <<>> THEN t ELSE liveTranscript)
            /\ UNCHANGED <<nativeFinalRef, outputs>>
    /\ UNCHANGED webFinalRef

\* The web recognizer's onresult, for an event whose results from
\* resultIndex on concatenate to interim (not final) and finalText (final).
WebResult(interim, finalText) ==
    /\ IF finalText # <<>>
       THEN IF ResultDispatches(handsFreeRef)
            THEN /\ SetLiveTranscript(<<>>)
                 /\ webFinalRef' = <<>>
                 /\ outputs' = Send(outputs, Trim(finalText), "result")
            ELSE /\ webFinalRef' = webFinalRef \o finalText
                 /\ SetLiveTranscript(IF interim # <<>> THEN interim ELSE liveTranscript)
                 /\ UNCHANGED outputs
       ELSE /\ SetLiveTranscript(IF interim # <<>> THEN interim ELSE liveTranscript)
            /\ UNCHANGED <<webFinalRef, outputs>>
    /\ UNCHANGED nativeFinalRef

\* The recognizer reports a result.
ResultEvent ==
    /\ RecognizerActive
    /\ nResults < MaxResults
    /\ nResults' = nResults + 1
    /\ \/ /\ env = "native"
          /\ srSubsRef
          /\ \E t \in Texts, isFinal \in BOOLEAN :
                /\ NativeResult(t, isFinal)
                /\ ev' = Event("result", t, isFinal)
       \/ /\ env = "web"
          /\ \E interim \in Interims, finalText \in Texts :
                /\ WebResult(interim, finalText)
                /\ ev' = Event("result", finalText, finalText # <<>>)
    /\ UNCHANGED <<env, mounted, perm, handsFree, handsFreeRef, listening, willCancel,
                   willCancelRef, input, startingRef, stoppingRef,
                   webRecognitionRef, srSubsRef, rec, startPc, stopPc, pressed,
                   dragged, timers, stopDuringStart, nStarts, nRecStarts>>
    /\ UNCHANGED <<chatVars, sendVars, healthVars, killVars, storeVars>>

\* Mutation of LiveAfterEnd: the live transcript outlives the session.
LiveAfterEndKept(live) == live

\* setLiveTranscript('') of the end handlers.
LiveAfterEnd(live) == <<>>

\* Mutation of CommittedAfterEnd: the committed buffer outlives the session.
CommittedAfterEndKept(buf) == buf

\* nativeFinalRef.current = '' and webFinalRef.current = '' of the end
\* handlers.
CommittedAfterEnd(buf) == <<>>

\* The 'end' listener (native) and onend (web), with the resolved text.
EndHandler(finalText) ==
    /\ listening' = FALSE
    /\ SetLiveTranscript(LiveAfterEnd(liveTranscript))
    /\ IF EndDispatches(handsFreeRef, finalText)
       THEN IF willCancelRef
            THEN /\ input' = DraftAppend(input, finalText)
                 /\ outputs' = Draft(outputs, finalText, "end")
            ELSE /\ outputs' = Send(outputs, finalText, "end")
                 /\ UNCHANGED input
       ELSE UNCHANGED <<input, outputs>>
    /\ nativeFinalRef' = IF env = "native" THEN CommittedAfterEnd(nativeFinalRef)
                         ELSE nativeFinalRef
    /\ webFinalRef' = IF env = "web" THEN CommittedAfterEnd(webFinalRef)
                      ELSE webFinalRef

\* The recognizer ends: after stop(), after an error, or by itself.  The
\* native event reaches the 'end' listener if one is registered.
EndEvent ==
    /\ RecognizerActive
    /\ rec' = "off"
    /\ IF env = "native"
       THEN IF srSubsRef
            THEN /\ EndHandler(ResolveNative(nativeFinalRef, liveTranscriptRef))
                 /\ ev' = Event("end", <<>>, FALSE)
            ELSE /\ ev' = NoEvent
                 /\ UNCHANGED <<listening, liveTranscript, liveTranscriptRef,
                                input, outputs, nativeFinalRef, webFinalRef>>
       ELSE /\ EndHandler(ResolveWeb(webFinalRef, liveTranscriptRef))
            /\ ev' = Event("end", <<>>, FALSE)
    /\ UNCHANGED <<env, mounted, perm, handsFree, handsFreeRef, willCancel,
                   willCancelRef, startingRef, stoppingRef, webRecognitionRef,
                   srSubsRef, startPc, stopPc, pressed, dragged, timers,
                   stopDuringStart, nStarts, nRecStarts, nResults>>
    /\ UNCHANGED <<chatVars, sendVars, healthVars, killVars, storeVars>>

\* The recognizer emits its end event a second time: the handler runs
\* again.
RepeatedEndEvent ==
    /\ ev.name = "end"
    /\ rec = "off"
    /\ IF env = "native"
       THEN EndHandler(ResolveNative(nativeFinalRef, liveTranscriptRef))
       ELSE EndHandler(ResolveWeb(webFinalRef, liveTranscriptRef))
    /\ ev' = Event("endAgain", <<>>, FALSE)
    /\ UNCHANGED <<env, mounted, perm, handsFree, handsFreeRef, willCancel,
                   willCancelRef, startingRef, stoppingRef, webRecognitionRef,
                   srSubsRef, rec, startPc, stopPc, pressed, dragged, timers,
                   stopDuringStart, nStarts, nRecStarts, nResults>>
    /\ UNCHANGED <<chatVars, sendVars, healthVars, killVars, storeVars>>

\* Mutation of ErrorEvent: the error ends the session there and then, and
\* the transcript is dropped.
ErrorEventDiscards ==
    /\ rec = "running"
    /\ rec' = "off"
    /\ listening' = FALSE
    /\ SetLiveTranscript(<<>>)
    /\ nativeFinalRef' = <<>>
    /\ webFinalRef' = <<>>
    /\ ev' = Event("error", <<>>, FALSE)
    /\ UNCHANGED <<env, mounted, perm, handsFree, handsFreeRef, willCancel, willCancelRef,
                   input, startingRef, stoppingRef, webRecognitionRef,
                   srSubsRef, startPc, stopPc, pressed, dragged, timers,
                   outputs, stopDuringStart, nStarts, nRecStarts, nResults>>
    /\ UNCHANGED <<chatVars, sendVars, healthVars, killVars, storeVars>>

\* The recognizer reports an error: the handlers log it, and the recognizer
\* goes on to end (both recognizers emit end after error).
ErrorEvent ==
    /\ rec = "running"
    /\ rec' = "stopping"
    /\ ev' = Event("error", <<>>, FALSE)
    /\ UNCHANGED <<env, mounted, perm, handsFree, handsFreeRef, listening,
                   liveTranscript, liveTranscriptRef, willCancel, willCancelRef,
                   input, startingRef, stoppingRef, nativeFinalRef, webFinalRef,
                   webRecognitionRef, srSubsRef, startPc, stopPc, pressed,
                   dragged, timers, outputs, stopDuringStart, nStarts, nRecStarts, nResults>>
    /\ UNCHANGED <<chatVars, sendVars, healthVars, killVars, storeVars>>

\* srSubsRef.current.forEach((sub) => sub?.remove?.()); srSubsRef.current = []
cleanupNativeSubs == srSubsRef' = FALSE

\* The screen is unmounted: the cleanup of the effect of line 186 removes
\* the native listeners.  The recognizers are not stopped, the handlers of
\* the web recognizer stay on it, and the pending timers and the suspended
\* calls go on.
Unmount ==
    /\ mounted
    /\ mounted' = FALSE
    /\ cleanupNativeSubs
    /\ ev' = NoEvent
    /\ UNCHANGED <<env, perm, handsFree, handsFreeRef, input, pressed, dragged,
                   timers, outputs, nResults>>
    /\ UNCHANGED captureVars
    /\ UNCHANGED <<chatVars, sendVars, healthVars, killVars, storeVars>>

VoiceNext ==
    \/ PressIn
    \/ Drag
    \/ PressOut
    \/ TimerFires
    \/ Tap
    \/ ToggleHandsFree
    \/ StartAfterImport
    \/ StartAfterGetPerm
    \/ StartAfterReqPerm
    \/ StopAfterImport
    \/ ResultEvent
    \/ EndEvent
    \/ RepeatedEndEvent
    \/ ErrorEvent
    \/ Unmount

\* ------------------------------------------------------------------------
\* The chat screen's send and the session store
\* ------------------------------------------------------------------------

SessionIds == {"s1", "s2"}

\* The conversation ids a server assigns.
ConvIds == {"c1", "c2"}

\* What the user sends.
UserTexts == { <<"u">> }

\* The tokens a stream delivers.
Tokens == { <<"a">> }

\* A final content that is not the sum of the tokens; <<>> is an empty one.
FinalContents == { <<>>, <<"x">> }

ErrorText == <<"Error">>

\* A message of the transcript; owner is history: the call of send that
\* created it, 0 for a message read from the store.
Message(role, content, owner) ==
    [role |-> role, content |-> content, owner |-> owner]

StoredMessage(role, content) == [role |-> role, content |-> content]

NoSession == [serverConversationId |-> "", messages |-> <<>>]

sessionToOpenAIMessages(ms) ==
    [i \in 1..Len(ms) |-> Message(ms[i].role, ms[i].content, 0)]

\* The store's operations; each maps over the sessions and changes the one
\* with the given id.
addMessageToSession(ss, id, role, content) ==
    [ss EXCEPT ![id].messages = Append(@, StoredMessage(role, content))]

setServerConversationId(ss, id, cid) ==
    [ss EXCEPT ![id].serverConversationId = cid]

\* getCurrentSession()?.serverConversationId
CurrentServerConversationId(ss, cur) ==
    IF cur = "none" THEN "" ELSE ss[cur].serverConversationId

\* The position of the last assistant message, 0 when there is none.
LastAssistantIndex(ms) ==
    LET I == {i \in 1..Len(ms) : ms[i].role = "assistant"}
    IN  IF I = {} THEN 0 ELSE CHOOSE i \in I : \A j \in I : j <= i

\* The token callback's update of the transcript.
AppendToLastAssistant(ms, tok) ==
    LET i == LastAssistantIndex(ms)
    IN  IF i = 0 THEN ms ELSE [ms EXCEPT ![i].content = @ \o tok]

FinalWriteAppends(old, finalText) == old \o finalText

\* content: finalText
FinalWrite(old, finalText) == finalText

\* The final update of the transcript.
ReplaceLastAssistant(ms, finalText) ==
    LET i == LastAssistantIndex(ms)
    IN  IF i = 0 THEN ms
        ELSE [ms EXCEPT ![i].content = FinalWrite(@, finalText)]

\* const finalText = chatResponse.content || full
FinalText(content, full) == IF content # <<>> THEN content ELSE full

\* chatResponse.conversationId && chatResponse.conversationId !== freshServerConversationId
Stores(cid, carried) == cid # "" /\ cid # carried

\* What is remembered of a step: the call of send it belongs to, what chat
\* returned as content, what the token callback had accumulated, and the
\* message list a call of send handed to chat.
SendEvent(name, id) ==
    [name |-> name, id |-> id, content |-> <<>>, full |-> <<>>, sent |-> <<>>]

NoSendEvent == SendEvent("none", 0)

\* The callbacks of a recognizer: registered is whether startRecording has
\* attached them; messages is the `messages` of the render that attached
\* them, the one their send closes over.
Listeners(registered, ms) == [registered |-> registered, messages |-> ms]

NoListeners == Listeners(FALSE, <<>>)

\* The state of a screen that has no session and has sent nothing.
SendIdle ==
    /\ sessions = [s \in SessionIds |-> NoSession]
    /\ currentSessionId = "none"
    /\ sessionIdRef = "none"
    /\ serverConversationIdRef = ""
    /\ messages = <<>>
    /\ inflight = {}
    /\ nSends = 0
    /\ nTokens = 0
    /\ received = [s \in SessionIds |-> ""]
    /\ sev = NoSendEvent
    /\ listeners = NoListeners

\* The screen as it is mounted: the sessions are those loaded from storage,
\* the first with the conversation id an earlier response may have left in
\* it, and no messages.
SendInit ==
    /\ \E c \in {"", "c1"} :
           sessions = [s \in SessionIds |->
                         IF s = "s1" THEN [NoSession EXCEPT !.serverConversationId = c]
                         ELSE NoSession]
    /\ currentSessionId \in {"s1", "none"}
    /\ sessionIdRef = currentSessionId
    /\ serverConversationIdRef = CurrentServerConversationId(sessions, currentSessionId)
    /\ messages = <<>>
    /\ inflight = {}
    /\ nSends = 0
    /\ nTokens = 0
    /\ received = [s \in SessionIds |-> sessions[s].serverConversationId]
    /\ sev = NoSendEvent
    /\ listeners = NoListeners

\* The effect that keeps the refs at the current session's values; it runs
\* after every render, and every change of the store renders.
SyncRefs ==
    /\ sessionIdRef' = currentSessionId'
    /\ serverConversationIdRef' = CurrentServerConversationId(sessions', currentSessionId')

\* send(text), up to the call of chat, as the closure of a render whose
\* `messages` is closed: the placeholder goes through the functional update
\* of the state, the list handed to chat is [...messages, userMsg] of the
\* closure.
SendFrom(closed) ==
    \E text \in UserTexts :
        /\ Trim(text) # <<>>
        /\ sessionIdRef # "none"
        /\ nSends < MaxSends
        /\ nSends' = nSends + 1
        /\ messages' = messages \o << Message("user", text, nSends'),
                                      Message("assistant", <<>>, nSends') >>
        /\ sessions' = addMessageToSession(sessions, sessionIdRef, "user", text)
        /\ inflight' = inflight \cup
                         { [id |-> nSends', session |-> sessionIdRef,
                            conversationId |-> serverConversationIdRef,
                            full |-> <<>>,
                            known |-> received[sessionIdRef]] }
        /\ sev' = [SendEvent("send", nSends')
                     EXCEPT !.sent = Append(closed, Message("user", text, nSends'))]
        /\ UNCHANGED <<currentSessionId, nTokens, received, listeners>>
        /\ SyncRefs
        /\ UNCHANGED <<chatVars, voiceVars, healthVars, killVars, storeVars>>

\* The Send button: the send of the render on screen.
ChatSend == SendFrom(messages)

\* startRecording attaches the recognizer's callbacks; they call the send
\* of the render startRecording belongs to.
AttachListeners ==
    /\ listeners # Listeners(TRUE, messages)
    /\ listeners' = Listeners(TRUE, messages)
    /\ UNCHANGED <<sessions, currentSessionId, sessionIdRef, serverConversationIdRef,
                   messages, inflight, nSends, nTokens, received, sev>>
    /\ UNCHANGED <<chatVars, voiceVars, healthVars, killVars, storeVars>>

\* A final result, or the end of a capture, calls send from a callback.
ListenerSend ==
    /\ listeners.registered
    /\ SendFrom(listeners.messages)

\* The token callback send hands to chat.
ChatToken ==
    \E r \in inflight, tok \in Tokens :
        /\ nTokens < MaxTokens
        /\ nTokens' = nTokens + 1
        /\ inflight' = (inflight \ {r}) \cup {[r EXCEPT !.full = @ \o tok]}
        /\ messages' = AppendToLastAssistant(messages, tok)
        /\ sev' = [SendEvent("token", r.id) EXCEPT !.full = r.full \o tok]
        /\ UNCHANGED <<sessions, currentSessionId, sessionIdRef,
                       serverConversationIdRef, nSends, received, listeners>>
        /\ UNCHANGED <<chatVars, voiceVars, healthVars, killVars, storeVars>>

\* send after chat resolved.  chat returns the id of the response, or the
\* id it was given when the response has none.
ChatResolve ==
    \E r \in inflight, serverId \in ConvIds \cup {""} :
    \E content \in FinalContents \cup {r.full} :
        LET cid       == IF serverId # "" THEN serverId ELSE r.conversationId
            finalText == FinalText(content, r.full)
            stored    == IF Stores(cid, r.conversationId)
                         THEN setServerConversationId(sessions, r.session, cid)
                         ELSE sessions
        IN  /\ inflight' = inflight \ {r}
            /\ sessions' = IF finalText # <<>>
                           THEN addMessageToSession(stored, r.session, "assistant", finalText)
                           ELSE stored
            /\ messages' = IF finalText # <<>>
                           THEN ReplaceLastAssistant(messages, finalText)
                           ELSE messages
            /\ received' = IF serverId # ""
                           THEN [received EXCEPT ![r.session] = serverId]
                           ELSE received
            /\ sev' = [SendEvent("resolve", r.id)
                         EXCEPT !.content = content, !.full = r.full]
            /\ UNCHANGED <<currentSessionId, nSends, nTokens, listeners>>
            /\ SyncRefs
            /\ UNCHANGED <<chatVars, voiceVars, healthVars, killVars, storeVars>>

\* send after chat threw.
ChatReject ==
    \E r \in inflight :
        /\ inflight' = inflight \ {r}
        /\ messages' = Append(messages, Message("assistant", ErrorText, r.id))
        /\ sessions' = addMessageToSession(sessions, r.session, "assistant", ErrorText)
        /\ sev' = SendEvent("reject", r.id)
        /\ UNCHANGED <<currentSessionId, nSends, nTokens, received, listeners>>
        /\ SyncRefs
        /\ UNCHANGED <<chatVars, voiceVars, healthVars, killVars, storeVars>>

\* The user picks another session; the screen re-reads its transcript from
\* the store.
SetCurrentSession ==
    \E s \in SessionIds :
        /\ s # currentSessionId
        /\ currentSessionId' = s
        /\ messages' = sessionToOpenAIMessages(sessions[s].messages)
        /\ sev' = SendEvent("switch", 0)
        /\ UNCHANGED <<sessions, inflight, nSends, nTokens, received, listeners>>
        /\ SyncRefs
        /\ UNCHANGED <<chatVars, voiceVars, healthVars, killVars, storeVars>>

SendNext ==
    \/ ChatSend
    \/ ChatToken
    \/ ChatResolve
    \/ ChatReject
    \/ SetCurrentSession

\* The screen's send with the recognizer's callbacks calling it too.
ListenerNext ==
    \/ SendNext
    \/ AttachListeners
    \/ ListenerSend

\* ------------------------------------------------------------------------
\* OpenAIClient.health
\* ------------------------------------------------------------------------

\* The configured base URLs, as typed: the host is one atom.
BaseUrls ==
    { <<"HOST">>, <<"HOST", "/">>, <<"HOST", "/", "/">>, <<"SP", "HOST", "/", "SP">>,
      <<"HOST", "/", "v1">>, <<"HOST", "/", "v1", "/">> }

ApiKeys == { <<"KEY">>, <<>> }

\* The statuses a response to the models request may have.
HealthStatuses == {200, 201, 204, 299, 300, 401, 403, 404, 500, 503}

\* The ways fetch rejects.
FetchFailures == {"network", "aborted"}

RECURSIVE StripTrailingSlashes(_)

\* raw.replace(/\/+$/, '')
StripTrailingSlashes(s) ==
    IF s # <<>> /\ s[Len(s)] = "/"
    THEN StripTrailingSlashes(SubSeq(s, 1, Len(s) - 1))
    ELSE s

normalizeBaseUrl(raw) == StripTrailingSlashes(Trim(raw))

getUrl(base, endpoint) ==
    base \o (IF endpoint # <<>> /\ Head(endpoint) = "/" THEN endpoint
             ELSE <<"/">> \o endpoint)

authHeaders(apiKey) == <<"Bearer", "SP">> \o apiKey

ModelsEndpoint == <<"/", "models">>

NoRequest == [method |-> "none", url |-> <<>>, authorization |-> <<>>]

Response(status) == [kind |-> "response", status |-> status]

Failure(kind) == [kind |-> kind, status |-> 0]

NoOutcome == [kind |-> "none", status |-> 0]

HealthOutcomeRethrows(res) ==
    IF res.kind = "response"
    THEN [threw |-> FALSE, value |-> Ok(res.status)]
    ELSE [threw |-> TRUE, value |-> FALSE]

\* try { const res = await fetch(...); return res.ok; } catch { return false; }
HealthOutcome(res) ==
    IF res.kind = "response"
    THEN [threw |-> FALSE, value |-> Ok(res.status)]
    ELSE [threw |-> FALSE, value |-> FALSE]

\* No health call was made.
HealthIdle ==
    /\ hPc = "idle"
    /\ hReq = NoRequest
    /\ hRes = NoOutcome
    /\ hRet = [threw |-> FALSE, value |-> FALSE]

\* The constructor.
NewClient(raw, key) ==
    [cfg |-> [baseUrl |-> Trim(raw), apiKey |-> key],
     baseUrl |-> normalizeBaseUrl(Trim(raw))]

HealthInit ==
    /\ \E raw \in BaseUrls, key \in ApiKeys : client = NewClient(raw, key)
    /\ HealthIdle

\* The client of the other specifications: constructed, no health call.
ClientIdle ==
    /\ client = NewClient(<<"HOST">>, <<"KEY">>)
    /\ HealthIdle

\* health(), up to the await of fetch.
HealthCall ==
    /\ hPc = "idle"
    /\ hPc' = "fetching"
    /\ hReq' = [method |-> "GET", url |-> getUrl(client.baseUrl, ModelsEndpoint),
                authorization |-> authHeaders(client.cfg.apiKey)]
    /\ UNCHANGED <<client, hRes, hRet>>
    /\ UNCHANGED <<chatVars, voiceVars, sendVars, killVars, storeVars>>

\* fetch resolves with a response.
HealthResponse ==
    \E status \in HealthStatuses :
        /\ hPc = "fetching"
        /\ hRes' = Response(status)
        /\ hRet' = HealthOutcome(hRes')
        /\ hPc' = IF hRet'.threw THEN "threw" ELSE "returned"
        /\ UNCHANGED <<client, hReq>>
        /\ UNCHANGED <<chatVars, voiceVars, sendVars, killVars, storeVars>>

\* fetch rejects.
HealthFailure ==
    \E kind \in FetchFailures :
        /\ hPc = "fetching"
        /\ hRes' = Failure(kind)
        /\ hRet' = HealthOutcome(hRes')
        /\ hPc' = IF hRet'.threw THEN "threw" ELSE "returned"
        /\ UNCHANGED <<client, hReq>>
        /\ UNCHANGED <<chatVars, voiceVars, sendVars, killVars, storeVars>>

HealthNext ==
    \/ HealthCall
    \/ HealthResponse
    \/ HealthFailure

\* ------------------------------------------------------------------------
\* OpenAIClient.killSwitch
\* ------------------------------------------------------------------------

KillStatuses == {200, 204, 299, 300, 404, 500}

\* The response bodies: not JSON, {}, null, an object whose error is the
\* empty string, an object with an error text, an object with a message
\* and a count.
KillBodies == {"unparseable", "empty", "null", "errorEmpty", "errorText", "report"}

\* What fetch rejects with: an error with a message, an error whose message
\* is empty, a value that is not an error.
KillFailures == {"Network request failed", "", "undefined"}

Falsy == {"", "undefined"}

\* a || b
OrElse(a, b) == IF a \in Falsy THEN b ELSE a

\* `Kill switch failed: ${res.status}`
KillFailedText ==
    [s \in KillStatuses |->
        CASE s = 200 -> "Kill switch failed: 200"
          [] s = 204 -> "Kill switch failed: 204"
          [] s = 299 -> "Kill switch failed: 299"
          [] s = 300 -> "Kill switch failed: 300"
          [] s = 404 -> "Kill switch failed: 404"
          [] s = 500 -> "Kill switch failed: 500"]

\* The fields killSwitch reads of a parsed body.
KillFields(body) ==
    CASE body = "errorEmpty" -> [error |-> "", message |-> "undefined", processesKilled |-> "undefined"]
      [] body = "errorText"  -> [error |-> "E", message |-> "undefined", processesKilled |-> "undefined"]
      [] body = "report"     -> [error |-> "undefined", message |-> "M", processesKilled |-> "1"]
      [] OTHER               -> [error |-> "undefined", message |-> "undefined", processesKilled |-> "undefined"]

KillResult(threw, success, error, message, processesKilled) ==
    [threw |-> threw, success |-> success, error |-> error,
     message |-> message, processesKilled |-> processesKilled]

NoKillResult == KillResult(FALSE, FALSE, "undefined", "undefined", "undefined")

\* catch (error): success false with error?.message or the default text
KillCaught(message) ==
    KillResult(FALSE, FALSE, OrElse(message, "Failed to connect to server"),
               "undefined", "undefined")

\* The part of killSwitch after res.json() settled with data.
KillAfterJson(status, data) ==
    IF ~Ok(status)
    THEN KillResult(FALSE, FALSE, OrElse(data.error, KillFailedText[status]),
                    "undefined", "undefined")
    ELSE KillResult(FALSE, TRUE, "undefined",
                    OrElse(data.message, "Emergency stop executed"),
                    data.processesKilled)

KillOutcomeJsonUncaught(res) ==
    IF res.kind # "response" THEN KillCaught(res.message)
    ELSE IF res.body = "unparseable" THEN KillCaught("Unexpected token")
    ELSE KillAfterJson(res.status, KillFields(res.body))

\* try { res = await fetch(...); data = await res.json().catch(() => ({})); ... }
\* catch (error) { ... }
KillOutcome(res) ==
    IF res.kind # "response" THEN KillCaught(res.message)
    ELSE KillAfterJson(res.status,
                       KillFields(IF res.body = "unparseable" THEN "empty" ELSE res.body))

NoKillOutcome == [kind |-> "none", status |-> 0, body |-> "empty", message |-> "undefined"]

\* No killSwitch call was made.
KillIdle ==
    /\ kPc = "idle"
    /\ kReq = [method |-> "none", url |-> <<>>, authorization |-> <<>>, body |-> "none"]
    /\ kRes = NoKillOutcome
    /\ kRet = NoKillResult

EmergencyStopEndpoint == <<"/", "emergency-stop">>

\* killSwitch(), up to the await of fetch.
KillCall ==
    /\ kPc = "idle"
    /\ kPc' = "fetching"
    /\ kReq' = [method |-> "POST", url |-> getUrl(client.baseUrl, EmergencyStopEndpoint),
                authorization |-> authHeaders(client.cfg.apiKey), body |-> "{}"]
    /\ UNCHANGED <<kRes, kRet>>
    /\ UNCHANGED <<chatVars, voiceVars, sendVars, healthVars, storeVars>>

\* fetch resolves with a response, and res.json() settles.
KillResponse ==
    \E status \in KillStatuses, body \in KillBodies :
        /\ kPc = "fetching"
        /\ kRes' = [kind |-> "response", status |-> status, body |-> body,
                    message |-> "undefined"]
        /\ kRet' = KillOutcome(kRes')
        /\ kPc' = IF kRet'.threw THEN "threw" ELSE "returned"
        /\ UNCHANGED kReq
        /\ UNCHANGED <<chatVars, voiceVars, sendVars, healthVars, storeVars>>

\* fetch rejects.
KillFailure ==
    \E message \in KillFailures :
        /\ kPc = "fetching"
        /\ kRes' = [kind |-> "failure", status |-> 0, body |-> "empty",
                    message |-> message]
        /\ kRet' = KillOutcome(kRes')
        /\ kPc' = IF kRet'.threw THEN "threw" ELSE "returned"
        /\ UNCHANGED kReq
        /\ UNCHANGED <<chatVars, voiceVars, sendVars, healthVars, storeVars>>

KillNext ==
    \/ KillCall
    \/ KillResponse
    \/ KillFailure

\* ------------------------------------------------------------------------
\* The persisted configuration and the session store
\* ------------------------------------------------------------------------

\* What AsyncStorage.getItem resolves with, by kind: "absent" is null,
\* "empty" the empty string, "text" a string that is not JSON, and the
\* others JSON texts of a null, a number, an object or an array.  fields
\* holds the own enumerable properties of the parsed value, items its
\* elements when it is an array of sessions.
Raw(kind, fields, items) == [kind |-> kind, fields |-> fields, items |-> items]

NoFieldsAtAll == [k \in {} |-> ""]

RawAbsent == Raw("absent", NoFieldsAtAll, <<>>)

\* !raw
NoRaw(raw) == raw.kind \in {"absent", "empty"}

\* JSON.parse(raw) returns; it throws on a string that is not JSON.
Parses(raw) == raw.kind \notin {"absent", "empty", "text"}

\* const DEFAULTS
DEFAULTS ==
    [apiKey |-> "", baseUrl |-> "https://api.openai.com/v1",
     model |-> "gpt-4o-mini", handsFree |-> "false"]

\* The stored configurations: none, an empty string, text that is not
\* JSON, null, a number, an empty object, an object written before
\* handsFree existed, an object with handsFree alone, and an array.
StoredConfigs ==
    { RawAbsent,
      Raw("empty", NoFieldsAtAll, <<>>),
      Raw("text", NoFieldsAtAll, <<>>),
      Raw("null", NoFieldsAtAll, <<>>),
      Raw("number", NoFieldsAtAll, <<>>),
      Raw("object", NoFieldsAtAll, <<>>),
      Raw("object", [apiKey |-> "k", baseUrl |-> "http://h/v1", model |-> "m"], <<>>),
      Raw("object", [handsFree |-> "true"], <<>>),
      Raw("array", [k \in {"0"} |-> "x"], <<>>) }

\* { ...DEFAULTS, ...parsed }
Spread(defaults, parsed) ==
    [k \in DOMAIN defaults \cup DOMAIN parsed |->
        IF k \in DOMAIN parsed THEN parsed[k] ELSE defaults[k]]

\* Mutation of CaughtConfig: the error of JSON.parse is not caught.
CaughtConfigRethrown(raw) == [threw |-> "SyntaxError"]

\* catch { return DEFAULTS }
CaughtConfig(raw) == DEFAULTS

loadConfig(raw) ==
    IF NoRaw(raw) THEN DEFAULTS
    ELSE IF Parses(raw) THEN Spread(DEFAULTS, raw.fields)
    ELSE CaughtConfig(raw)

\* A session of the store, without its timestamps and title.
Session(id, ms, serverConversationId) ==
    [id |-> id, messages |-> ms,
     serverConversationId |-> serverConversationId]

StoreMessage(role, content) == [role |-> role, content |-> content]

StoredS1 == Session("s1", <<StoreMessage("user", "u")>>, "c1")

StoredS2 == Session("s2", <<>>, "")

\* JSON.stringify(sessions), as getItem gives it back.
Stringify(ss) == Raw("array", NoFieldsAtAll, ss)

\* The stored session lists: none, an empty string, text that is not JSON,
\* null, an object, and arrays of no, one and two sessions.
StoredLists ==
    { RawAbsent,
      Raw("empty", NoFieldsAtAll, <<>>),
      Raw("text", NoFieldsAtAll, <<>>),
      Raw("null", NoFieldsAtAll, <<>>),
      Raw("object", [sessions |-> "x"], <<>>),
      Stringify(<<>>),
      Stringify(<<StoredS1>>),
      Stringify(<<StoredS2, StoredS1>>) }

\* The stored current ids: none, a stored session's, and one of no session.
StoredCurrentIds == {"none", "s1", "gone"}

\* Mutation of ArrayOrEmpty: the parsed value is returned as it is.
ArrayOrEmptyUnchecked(raw) == IF raw.kind = "array" THEN raw.items ELSE raw.fields

\* Array.isArray(parsed) ? parsed : []
ArrayOrEmpty(raw) == IF raw.kind = "array" THEN raw.items ELSE <<>>

\* loadSessionsFromStorage; the error of JSON.parse is caught.
loadSessionsFromStorage(raw) ==
    IF NoRaw(raw) THEN <<>>
    ELSE IF Parses(raw) THEN ArrayOrEmpty(raw)
    ELSE <<>>

\* loadedSessions.some(s => s.id === savedCurrentId)
HasSession(ss, id) == \E i \in 1..Len(ss) : ss[i].id = id

\* What is remembered of the store's last operation: its name and the id
\* it was given.
StoreEvent(name, id) == [name |-> name, id |-> id]

NoStoreEvent == StoreEvent("none", "none")

\* The hooks before they are mounted, and what no run of them changes.
StoreIdle ==
    /\ storedConfig = RawAbsent
    /\ config = DEFAULTS
    /\ ready = FALSE
    /\ storedSessions = RawAbsent
    /\ storedCurrent = "none"
    /\ sessionList = <<>>
    /\ currentId = "none"
    /\ isLoading = TRUE
    /\ loadPc = "none"
    /\ loaded = <<>>
    /\ savedCurrentId = "none"
    /\ nLoads = 0
    /\ nCreated = 0
    /\ nAdded = 0
    /\ created = {}
    /\ stEv = NoStoreEvent

\* useConfig and useSessionStore are mounted: the state is the initial one
\* of the hooks and the effect of line 114 has called loadSessions.
StoreMounted ==
    /\ config = DEFAULTS
    /\ ready = FALSE
    /\ sessionList = <<>>
    /\ currentId = "none"
    /\ isLoading = TRUE
    /\ loadPc = "called"
    /\ loaded = <<>>
    /\ savedCurrentId = "none"
    /\ nLoads = 0
    /\ nCreated = 0
    /\ nAdded = 0
    /\ created = {}
    /\ stEv = NoStoreEvent

\* The effect of useConfig: loadConfig resolves, setConfig, setReady.
LoadConfig ==
    /\ ~ready
    /\ config' = loadConfig(storedConfig)
    /\ ready' = TRUE
    /\ UNCHANGED <<storedConfig, storedSessions, storedCurrent, sessionList, currentId,
                   isLoading, loadPc, loaded, savedCurrentId, nLoads, nCreated,
                   nAdded, created, stEv>>
    /\ UNCHANGED <<chatVars, voiceVars, sendVars, healthVars, killVars>>

\* The effect of line 119: the list is saved when it or isLoading has
\* changed and the store is not loading.
Persist ==
    storedSessions' = IF ~isLoading' /\ <<sessionList', isLoading'>> # <<sessionList, isLoading>>
              THEN Stringify(sessionList')
              ELSE storedSessions

\* loadSessions is called again: setIsLoading(true), and the two reads are
\* started.
LoadSessionsCall ==
    /\ loadPc = "none"
    /\ nLoads < MaxLoads
    /\ nLoads' = nLoads + 1
    /\ isLoading' = TRUE
    /\ loadPc' = "called"
    /\ stEv' = StoreEvent("loadSessions", "none")
    /\ UNCHANGED <<sessionList, currentId, storedCurrent, loaded, savedCurrentId,
                   nCreated, nAdded, created>>
    /\ Persist
    /\ UNCHANGED <<storedConfig, config, ready>>
    /\ UNCHANGED <<chatVars, voiceVars, sendVars, healthVars, killVars>>

\* The two reads of loadSessions resolve.
LoadSessionsRead ==
    /\ loadPc = "called"
    /\ loaded' = loadSessionsFromStorage(storedSessions)
    /\ savedCurrentId' = storedCurrent
    /\ loadPc' = "read"
    /\ UNCHANGED <<storedConfig, config, ready, storedSessions, storedCurrent,
                   sessionList, currentId, isLoading, nLoads, nCreated, nAdded,
                   created, stEv>>
    /\ UNCHANGED <<chatVars, voiceVars, sendVars, healthVars, killVars>>

\* loadSessions after its await: the loaded list replaces the list, the
\* saved current id is taken if it is the id of a loaded session, and
\* setIsLoading(false).
LoadSessionsFinish ==
    /\ loadPc = "read"
    /\ sessionList' = loaded
    /\ currentId' = IF savedCurrentId # "none" /\ HasSession(loaded, savedCurrentId)
                    THEN savedCurrentId
                    ELSE currentId
    /\ isLoading' = FALSE
    /\ loadPc' = "none"
    /\ stEv' = StoreEvent("loaded", "none")
    /\ UNCHANGED <<storedCurrent, loaded, savedCurrentId, nLoads, nCreated, nAdded,
                   created>>
    /\ Persist
    /\ UNCHANGED <<storedConfig, config, ready>>
    /\ UNCHANGED <<chatVars, voiceVars, sendVars, healthVars, killVars>>

LoadNext ==
    \/ LoadConfig
    \/ LoadSessionsCall
    \/ LoadSessionsRead
    \/ LoadSessionsFinish

\* The ids createSession gives to the sessions it makes, in order.
NewIds == <<"n1", "n2", "n3">>

\* An id of no session.
UnknownId == "zz"

\* createSession(): a session with an id of its own and no messages.
createSession(n) == Session(NewIds[n], <<>>, "")

Ids(ss) == {ss[i].id : i \in 1..Len(ss)}

\* The ids the operations are called with: those of the list and an
\* unknown one.
OpIds == Ids(sessionList) \cup {UnknownId}

\* Mutation of Matches: every session is taken for the one asked for.
MatchesAny(session, id) == TRUE

\* session.id !== sessionId ? return session : ...
Matches(session, id) == session.id = id

\* messages: [...session.messages, newMessage]
WithMessage(session, role, content) ==
    [session EXCEPT !.messages = Append(@, StoreMessage(role, content))]

\* { ...session, messages }
WithMessages(session, ms) == [session EXCEPT !.messages = ms]

\* { ...session, serverConversationId }
WithServerConversationId(session, cid) ==
    [session EXCEPT !.serverConversationId = cid]

\* prev.filter(s => s.id !== sessionId)
Without(ss, id) == SelectSeq(ss, LAMBDA session : session.id # id)

\* What the operations that follow leave alone.
StoreRest ==
    /\ UNCHANGED <<storedConfig, config, ready>>
    /\ UNCHANGED <<isLoading, loadPc, loaded, savedCurrentId, nLoads>>

\* setCurrentSession(sessionId): the state and the stored id.
setCurrentSession(id) ==
    /\ currentId' = id
    /\ storedCurrent' = id

\* createNewSession(): the new session is put first and made current.
CreateNewSession ==
    /\ nCreated < MaxCreated
    /\ nCreated' = nCreated + 1
    /\ LET newSession == createSession(nCreated')
       IN  /\ sessionList' = <<newSession>> \o sessionList
           /\ setCurrentSession(newSession.id)
           /\ created' = created \cup {newSession.id}
           /\ stEv' = StoreEvent("createNewSession", newSession.id)
    /\ UNCHANGED nAdded
    /\ StoreRest
    /\ Persist
    /\ UNCHANGED <<chatVars, voiceVars, sendVars, healthVars, killVars>>

\* setCurrentSession called by a screen, with the id of a session of the
\* list or null.
StoreSetCurrentSession ==
    \E id \in Ids(sessionList) \cup {"none"} :
        /\ id # currentId
        /\ setCurrentSession(id)
        /\ stEv' = StoreEvent("setCurrentSession", id)
        /\ UNCHANGED <<sessionList, storedSessions, nCreated, nAdded, created>>
        /\ StoreRest
        /\ UNCHANGED <<chatVars, voiceVars, sendVars, healthVars, killVars>>

\* deleteSession(sessionId)
DeleteSession ==
    \E id \in OpIds :
        /\ sessionList' = Without(sessionList, id)
        /\ IF currentId = id
           THEN setCurrentSession("none")
           ELSE UNCHANGED <<currentId, storedCurrent>>
        /\ created' = created \ {id}
        /\ stEv' = StoreEvent("deleteSession", id)
        /\ UNCHANGED <<nCreated, nAdded>>
        /\ StoreRest
        /\ Persist
        /\ UNCHANGED <<chatVars, voiceVars, sendVars, healthVars, killVars>>

\* clearAllSessions()
ClearAllSessions ==
    /\ sessionList # <<>> \/ currentId # "none"
    /\ sessionList' = <<>>
    /\ setCurrentSession("none")
    /\ created' = {}
    /\ stEv' = StoreEvent("clearAllSessions", "none")
    /\ UNCHANGED <<nCreated, nAdded>>
    /\ StoreRest
    /\ Persist
    /\ UNCHANGED <<chatVars, voiceVars, sendVars, healthVars, killVars>>

\* The role and the text of the messages added.
AddedRoles == {"assistant"}

AddedContent == "m"

\* The list updateSessionMessages is given.
UpdatedMessages == { <<StoreMessage("assistant", "x")>> }

\* The conversation id setServerConversationId is given.
AssignedConvIds == {"c2"}

\* A call that changes the content of a session is counted.
Counted ==
    /\ nAdded < MaxAdded
    /\ nAdded' = nAdded + 1

\* addMessageToSession(sessionId, role, content)
AddMessageToSession ==
    \E id \in OpIds, role \in AddedRoles :
        /\ Counted
        /\ sessionList' = [i \in 1..Len(sessionList) |->
                             IF Matches(sessionList[i], id)
                             THEN WithMessage(sessionList[i], role, AddedContent)
                             ELSE sessionList[i]]
        /\ stEv' = StoreEvent("addMessageToSession", id)
        /\ UNCHANGED <<currentId, storedCurrent, nCreated, created>>
        /\ StoreRest
        /\ Persist
        /\ UNCHANGED <<chatVars, voiceVars, sendVars, healthVars, killVars>>

\* updateSessionMessages(sessionId, messages)
UpdateSessionMessages ==
    \E id \in OpIds, ms \in UpdatedMessages :
        /\ Counted
        /\ sessionList' = [i \in 1..Len(sessionList) |->
                             IF Matches(sessionList[i], id)
                             THEN WithMessages(sessionList[i], ms)
                             ELSE sessionList[i]]
        /\ stEv' = StoreEvent("updateSessionMessages", id)
        /\ UNCHANGED <<currentId, storedCurrent, nCreated, created>>
        /\ StoreRest
        /\ Persist
        /\ UNCHANGED <<chatVars, voiceVars, sendVars, healthVars, killVars>>

\* setServerConversationId(sessionId, serverConversationId)
SetServerConversationId ==
    \E id \in OpIds, cid \in AssignedConvIds :
        /\ Counted
        /\ sessionList' = [i \in 1..Len(sessionList) |->
                             IF Matches(sessionList[i], id)
                             THEN WithServerConversationId(sessionList[i], cid)
                             ELSE sessionList[i]]
        /\ stEv' = StoreEvent("setServerConversationId", id)
        /\ UNCHANGED <<currentId, storedCurrent, nCreated, created>>
        /\ StoreRest
        /\ Persist
        /\ UNCHANGED <<chatVars, voiceVars, sendVars, healthVars, killVars>>

StoreNext ==
    \/ LoadSessionsCall
    \/ LoadSessionsRead
    \/ LoadSessionsFinish
    \/ CreateNewSession
    \/ StoreSetCurrentSession
    \/ DeleteSession
    \/ ClearAllSessions
    \/ AddMessageToSession
    \/ UpdateSessionMessages
    \/ SetServerConversationId

\* The operations on a store that has loaded.
EditNext ==
    \/ CreateNewSession
    \/ StoreSetCurrentSession
    \/ DeleteSession
    \/ ClearAllSessions
    \/ AddMessageToSession
    \/ UpdateSessionMessages
    \/ SetServerConversationId

\* ------------------------------------------------------------------------
\* Specifications
\* ------------------------------------------------------------------------

\* One call of chat, with the screen idle.
InitChat ==
    /\ ChatInit
    /\ env = "native"
    /\ perm = "granted"
    /\ handsFree = FALSE
    /\ VoiceIdle
    /\ SendIdle
    /\ ClientIdle
    /\ KillIdle
    /\ StoreIdle

SpecChat == InitChat /\ [][ChatNext]_vars

\* The voice capture handlers of the screen, with no chat call.
InitVoice ==
    ChatInit /\ VoiceInit /\ SendIdle /\ ClientIdle /\ KillIdle /\ StoreIdle

SpecVoice == InitVoice /\ [][VoiceNext]_vars

\* The screen's send and the session store, with no capture and no chat call
\* of the client modelled above: chat is what resolves or rejects.
InitSend ==
    /\ ChatInit
    /\ env = "native"
    /\ perm = "granted"
    /\ handsFree = FALSE
    /\ VoiceIdle
    /\ SendInit
    /\ ClientIdle
    /\ KillIdle
    /\ StoreIdle

SpecSend == InitSend /\ [][SendNext]_vars

\* The same screen with a recognizer whose callbacks call send.
InitListener ==
    /\ ChatInit
    /\ env = "native"
    /\ perm = "granted"
    /\ handsFree = TRUE
    /\ VoiceIdle
    /\ SendInit
    /\ ClientIdle
    /\ KillIdle
    /\ StoreIdle

SpecListener == InitListener /\ [][ListenerNext]_vars

\* One health call of a client, with the screen idle.
InitHealth ==
    /\ ChatInit
    /\ env = "native"
    /\ perm = "granted"
    /\ handsFree = FALSE
    /\ VoiceIdle
    /\ SendIdle
    /\ HealthInit
    /\ KillIdle
    /\ StoreIdle

SpecHealth == InitHealth /\ [][HealthNext]_vars

\* One killSwitch call of a client, with the screen idle.
InitKillSwitch ==
    /\ ChatInit
    /\ env = "native"
    /\ perm = "granted"
    /\ handsFree = FALSE
    /\ VoiceIdle
    /\ SendIdle
    /\ HealthInit
    /\ KillIdle
    /\ StoreIdle

SpecKillSwitch == InitKillSwitch /\ [][KillNext]_vars

\* The loading of the configuration and of the sessions when the hooks are
\* mounted, with the screen idle.
InitLoad ==
    /\ ChatInit
    /\ env = "native"
    /\ perm = "granted"
    /\ handsFree = FALSE
    /\ VoiceIdle
    /\ SendIdle
    /\ ClientIdle
    /\ KillIdle
    /\ storedConfig \in StoredConfigs
    /\ storedSessions \in StoredLists
    /\ storedCurrent \in StoredCurrentIds
    /\ StoreMounted

SpecLoad == InitLoad /\ [][LoadNext]_vars

\* The session store as its hook is mounted, with the operations a screen
\* calls on it; the configuration is left out.
InitStore ==
    /\ ChatInit
    /\ env = "native"
    /\ perm = "granted"
    /\ handsFree = FALSE
    /\ VoiceIdle
    /\ SendIdle
    /\ ClientIdle
    /\ KillIdle
    /\ storedConfig = RawAbsent
    /\ storedSessions \in {RawAbsent, Stringify(<<StoredS2, StoredS1>>)}
    /\ storedCurrent \in {"none", "s1"}
    /\ StoreMounted

SpecStore == InitStore /\ [][StoreNext]_vars

\* A store whose loadSessions has ended: the list is what was stored, the
\* current session one of it or none.
StoreLoaded ==
    /\ config = DEFAULTS
    /\ ready = FALSE
    /\ sessionList \in {<<>>, <<StoredS1>>, <<StoredS2, StoredS1>>}
    /\ storedSessions = Stringify(sessionList)
    /\ currentId \in Ids(sessionList) \cup {"none"}
    /\ storedCurrent = currentId
    /\ isLoading = FALSE
    /\ loadPc = "none"
    /\ loaded = sessionList
    /\ savedCurrentId = currentId
    /\ nLoads = 0
    /\ nCreated = 0
    /\ nAdded = 0
    /\ created = {}
    /\ stEv = StoreEvent("loaded", "none")

InitEdit ==
    /\ ChatInit
    /\ env = "native"
    /\ perm = "granted"
    /\ handsFree = FALSE
    /\ VoiceIdle
    /\ SendIdle
    /\ ClientIdle
    /\ KillIdle
    /\ storedConfig = RawAbsent
    /\ StoreLoaded

SpecEdit == InitEdit /\ [][EditNext]_vars



\* ------------------------------------------------------------------------
\* Properties of OpenAIClient.chat
\* ------------------------------------------------------------------------

\* A token that parses as a JSON object whose type is "data-operation".
ControlToken(t) == Trim(t) = <<"OP">>

NotControlToken(t) == ~ControlToken(t)

\* The tokens the handled payloads carried, in order, before any filtering.
RECURSIVE LogTokens(_)
LogTokens(log) ==
    IF log = <<>> THEN <<>>
    ELSE LET e == Head(log)
         IN  (IF e.parsed /\ e.token # <<>> THEN << e.token >> ELSE <<>>)
             \o LogTokens(Tail(log))

\* The last non-empty conversation_id among the parsed payloads of the log,
\* and dflt when there is none.
RECURSIVE LastConversationId(_, _)
LastConversationId(log, dflt) ==
    IF log = <<>> THEN dflt
    ELSE LET e == log[Len(log)]
         IN  IF e.parsed /\ e.cid # "" THEN e.cid
             ELSE LastConversationId(SubSeq(log, 1, Len(log) - 1), dflt)

ReturnedFromStream == pc = "done" /\ resp.sse

\* C1: in both event-stream cases every argument passed to onToken is a
\* non-empty string, the accumulated text is at every moment the
\* concatenation of the fragments passed to onToken in call order, the content
\* chat returns is that concatenation, and no fragment is a control token.
C1_ContentIsConcatenationOfTokens ==
    /\ \A i \in 1..Len(ps.tokens) :
          ps.tokens[i] # <<>> /\ ~ControlToken(ps.tokens[i])
    /\ ps.finalText = Flatten(ps.tokens)
    /\ ReturnedFromStream => ret.content = Flatten(ps.tokens)

\* A stream with one filtered control token returned two tokens through
\* the incremental reader.
C1_Witness ==
    /\ ReturnedFromStream /\ resp.reader
    /\ Len(ps.tokens) = 2
    /\ \E i \in 1..Len(ps.log) : ControlToken(ps.log[i].token)

\* C2: the conversationId chat returns for an event-stream response is the
\* last non-empty conversation_id of the payloads that were parsed before
\* parsing stopped, and chat's own conversationId argument when no payload
\* carried one.
C2_LastConversationIdWins ==
    ReturnedFromStream => ret.conversationId = LastConversationId(ps.log, convIn)

\* Two payloads carried c1 and then c2, chat was called with c0, and c2 is
\* returned.
C2_Witness ==
    /\ ReturnedFromStream
    /\ convIn = "c0"
    /\ \E i, j \in 1..Len(ps.log) :
          i < j /\ ps.log[i].cid = "c1" /\ ps.log[j].cid = "c2"
    /\ ret.conversationId = "c2"

\* A payload line that is the termination marker, bare or JSON-quoted.
IsMarker(l) == l \in { <<"DONE">>, <<"QDONE">> }

\* C3: when a handled payload line is the termination marker, it is the last
\* line handled: chat has returned, without an error, the text accumulated
\* up to the marker, and nothing of what follows the marker was appended or
\* passed to onToken.
C3_DoneStopsParsing ==
    \A i \in 1..Len(ps.log) :
       IsMarker(ps.log[i].line) =>
          /\ i = Len(ps.log)
          /\ pc = "done"
          /\ err = NoError
          /\ ret.content = ps.finalText
          /\ ps.tokens = SelectSeq(LogTokens(SubSeq(ps.log, 1, i)), NotControlToken)

\* The reader met the JSON-quoted marker after a token, with a part of the
\* body not yet read.
C3_Witness ==
    /\ ReturnedFromStream /\ resp.reader
    /\ ps.log # <<>> /\ ps.log[Len(ps.log)].line = <<"QDONE">>
    /\ ps.tokens # <<>>
    /\ rest # <<>>

\* C4: the fragments passed to onToken, and the accumulated text, are
\* exactly the tokens of the handled payloads, in order and unchanged, with
\* the control tokens left out: a control token is never forwarded, and a
\* token that starts with a brace and is not a control token is.
C4_OnlyControlTokensAreFiltered ==
    /\ ps.tokens = SelectSeq(LogTokens(ps.log), NotControlToken)
    /\ ps.finalText = Flatten(SelectSeq(LogTokens(ps.log), NotControlToken))

\* A token, a control token, a JSON token without the marker and a token
\* that starts with a brace and is not JSON were handled, in this order.
C4_Witness ==
    /\ ReturnedFromStream
    /\ LogTokens(ps.log) =
          << <<"a">>, <<"SP", "OP">>, <<"OBJ">>, <<"LB", "a">> >>
    /\ ps.tokens = << <<"a">>, <<"OBJ">>, <<"LB", "a">> >>

\* C5: when the response is not successful chat throws an error carrying the
\* status and the body text (the empty text when the body cannot be read),
\* returns no content, and has made no call to onToken.
C5_NotOkThrows ==
    (resp.status # 0 /\ ~Ok(resp.status)) =>
       /\ pc = "failed"
       /\ err.kind = "http"
       /\ err.status = resp.status
       /\ resp.readable => err.text = resp.body
       /\ ~resp.readable => err.text = <<>>
       /\ ret = NoReturn
       /\ ps.tokens = <<>>

\* A 500 response whose body is an event stream with a token.
C5_Witness ==
    /\ pc = "failed"
    /\ resp.status = 500
    /\ resp.sse
    /\ resp.body = EventText["Ea"] \o EventText["Edone"]
    /\ err.text = resp.body

ReturnedFromNonSSE == pc = "done" /\ resp.status # 0 /\ ~resp.sse

\* C6 as stated: for a response that is not an event stream onToken is never
\* called, and the content is choices[0].message.content whenever the body
\* parses as JSON, the raw body text when it does not.
C6_Original ==
    ReturnedFromNonSSE =>
       /\ ps.tokens = <<>>
       /\ LET p == ParseJSON(resp.body)
          IN  IF p.ok THEN p.obj.msgStr /\ ret.content = p.obj.msg
              ELSE ret.content = resp.body

\* C6, amended: for a response that is not an event stream onToken is never
\* called; the content is choices[0].message.content when the body parses
\* as JSON and that field is a string (the empty string when the field is
\* absent), and the raw body text when the body does not parse as JSON or
\* the field is present and is not a string.
C6_NonSSEContent ==
    ReturnedFromNonSSE =>
       /\ ps.tokens = <<>>
       /\ LET p == ParseJSON(resp.body)
          IN  IF p.ok /\ p.obj.msgStr THEN ret.content = p.obj.msg
              ELSE ret.content = resp.body

\* The body {"choices":[{"message":{"content":"hi"}}]} yields "hi" with no
\* call to onToken.
C6_Witness ==
    /\ ReturnedFromNonSSE
    /\ resp.body = <<"Jhi">>
    /\ ret.content = <<"h", "i">>
    /\ ps.tokens = <<>>

\* C7: when the incremental reader has returned, its content, its calls to
\* onToken and its conversationId are those of the buffered fallback on
\* the same body.
C7_ReaderEqualsFallback ==
    (ReturnedFromStream /\ resp.reader) =>
       LET f == ChatFallback(resp.body, convIn)
       IN  /\ ret.content = f.finalText
           /\ ps.tokens = f.tokens
           /\ ret.conversationId = f.cid

\* ------------------------------------------------------------------------
\* Voice capture: dispatch of the transcript
\* ------------------------------------------------------------------------

\* The step handled a final result, with text, in hands-free mode while
\* the screen was listening.
HandsFreeFinal(e) ==
    /\ e.name = "result"
    /\ e.final
    /\ e.text # <<>>
    /\ e.handsFree
    /\ listening

BuffersEmpty(live, liveRef, native, web) ==
    /\ live = <<>>
    /\ liveRef = <<>>
    /\ native = <<>>
    /\ web = <<>>

LastOutput == outputs[Len(outputs)]

\* C8 (as the spec states it): in hands-free mode every final segment with
\* non-empty text received while listening causes one send at once, and
\* leaves the live transcript and the committed buffers empty.
C8_Original ==
    [][ HandsFreeFinal(ev') =>
          /\ Len(outputs') = Len(outputs) + 1
          /\ outputs'[Len(outputs')].kind = "send"
          /\ outputs'[Len(outputs')].by = "result"
          /\ BuffersEmpty(liveTranscript', liveTranscriptRef',
                          nativeFinalRef', webFinalRef')
      ]_vars

\* C8 (amended): in hands-free mode every final segment received while
\* listening whose text is non-empty after trimming causes exactly one
\* send, at once, of the trimmed text; a segment of white space only causes
\* none; either way the live transcript and the committed buffers are
\* empty afterwards, and the end of the session in hands-free mode sends
\* and drafts nothing, so no segment is sent twice.
C8_HandsFreeFinalIsSentOnce ==
    [][ /\ HandsFreeFinal(ev') =>
             /\ outputs' =
                  IF Trim(ev'.text) # <<>>
                  THEN Append(outputs,
                              [kind |-> "send", text |-> Trim(ev'.text),
                               by |-> "result", handsFree |-> TRUE,
                               dragged |-> dragged, pressed |-> pressed,
                               session |-> nStarts])
                  ELSE outputs
             /\ BuffersEmpty(liveTranscript', liveTranscriptRef',
                             nativeFinalRef', webFinalRef')
        /\ (ev'.name = "end" /\ ev'.handsFree) =>
             /\ outputs' = outputs
             /\ input' = input
      ]_vars

\* A final segment " b" has just been handled in hands-free mode while
\* listening: "b" was sent by the result handler and nothing is buffered.
C8_Witness ==
    /\ HandsFreeFinal(ev)
    /\ ev.text = <<"SP", "b">>
    /\ outputs # <<>>
    /\ LastOutput.kind = "send"
    /\ LastOutput.by = "result"
    /\ LastOutput.text = <<"b">>
    /\ BuffersEmpty(liveTranscript, liveTranscriptRef, nativeFinalRef,
                    webFinalRef)

\* C9: in manual mode a step produces a send or a draft-append only when it
\* handles the recognizer's end event; the steps of the start, of the
\* gestures, and of the partial and final results produce none.
C9_ManualOutputOnlyAtEnd ==
    [][ (~handsFreeRef /\ (outputs' # outputs \/ input' # input)) =>
          /\ ev'.name = "end"
          /\ Len(outputs') = Len(outputs) + 1
          /\ outputs'[Len(outputs')].by = "end"
      ]_vars

\* A final result with text has just been handled in manual mode while
\* listening, and nothing has been sent or drafted.
C9_Witness ==
    /\ ev.name = "result"
    /\ ev.final
    /\ Trim(ev.text) # <<>>
    /\ ~ev.handsFree
    /\ ~handsFree
    /\ listening
    /\ outputs = <<>>
    /\ input = <<>>

\* C10: a transcript resolved at the end of a capture during which the
\* finger moved past the cancel threshold before it was lifted is appended
\* to the draft, and is not sent.
C10_DragRoutesToDraft ==
    \A i \in 1..Len(outputs) :
        (outputs[i].by = "end" /\ outputs[i].dragged /\ ~outputs[i].pressed)
            => outputs[i].kind = "draft"

\* ------------------------------------------------------------------------
\* Voice capture: start and stop
\* ------------------------------------------------------------------------

\* C11: a press that arrives while a start is in progress or while the
\* screen is listening changes nothing of the capture; the recognizer's
\* start is only ever called on a recognizer that is off, and at most once
\* for each start request that passed the guard.
C11_StartInvokedOnce ==
    [][ /\ (pressed' /\ ~pressed /\ (startingRef \/ listening)) =>
             UNCHANGED captureVars
        /\ (nRecStarts' # nRecStarts) =>
             /\ rec = "off"
             /\ nRecStarts' = nRecStarts + 1
        /\ nRecStarts' <= nStarts'
      ]_vars

\* The button was released early and pressed again while the first capture
\* was still listening: one request passed the guard and the recognizer
\* was started once.
C11_Witness ==
    /\ pressed
    /\ timers # {}
    /\ listening
    /\ rec = "running"
    /\ nStarts = 1
    /\ nRecStarts = 1

\* The step issues a stop to the recognizer, or leaves one under way:
\* stopRecordingAndHandle passes its guards and, on the web, calls stop()
\* at once; it returns at its first line only when another call of it is
\* still awaiting the native module.
StopIssued ==
    \/ stoppingRef
    \/ IsNativePlatform /\ stoppingRef' /\ stopPc' = "import"
    \/ ~IsNativePlatform /\ webRecognitionRef /\ rec' # "running"

C13_PendingStartIsNoOp ==
    (stopDuringStart /\ startPc = "none" /\ stopPc = "none") =>
        rec # "running"

\* ------------------------------------------------------------------------
\* Voice capture: how a session ends
\* ------------------------------------------------------------------------

\* The text the end handler of the platform resolves.
Resolved ==
    IF env = "native" THEN ResolveNative(nativeFinalRef, liveTranscriptRef)
    ELSE ResolveWeb(webFinalRef, liveTranscriptRef)

\* C14: an error of the recognizer while listening discards nothing (the
\* buffers, the draft and the outputs are as before), the end event after
\* it resolves and dispatches the transcript as any end event does (in
\* manual mode a non-empty resolved text makes one output) and leaves the
\* screen idle; and while the recognizer is on its way to its end, the end
\* handler is ready to take the event.
C14_ErrorEndsLikeEnd ==
    /\ [][ /\ ev'.name = "error" =>
                /\ rec' = "stopping"
                /\ UNCHANGED <<listening, liveTranscript, liveTranscriptRef,
                               nativeFinalRef, webFinalRef, outputs, input>>
           /\ (ev'.name = "end" /\ rec = "stopping") =>
                /\ ~listening'
                /\ rec' = "off"
                /\ (~handsFreeRef /\ Resolved # <<>>) =>
                      /\ Len(outputs') = Len(outputs) + 1
                      /\ outputs'[Len(outputs')].text = Resolved
         ]_vars
    /\ [](rec = "stopping" => ENABLED EndEvent)

\* An error has just been reported in manual mode while listening, with a
\* final segment in the buffer.
C14_Witness ==
    /\ ev.name = "error"
    /\ ~ev.handsFree
    /\ listening
    /\ rec = "stopping"
    /\ nativeFinalRef = <<"SP", "b">>

NoProvider == env \in {"expoGo", "webNoSR"}

SentAtEnd(r) ==
    Append(outputs, [kind |-> "send", text |-> r, by |-> "end",
                     handsFree |-> FALSE, dragged |-> dragged,
                     pressed |-> pressed, session |-> nStarts])

\* C16 (as the spec states it): at the end of a session, in either mode,
\* when the cancel flag is not set a non-empty resolved text is dispatched
\* as one send and an empty one dispatches nothing.
C16_Original ==
    [][ (ev'.name = "end" /\ ~willCancelRef) =>
          IF Resolved # <<>>
          THEN /\ Len(outputs') = Len(outputs) + 1
               /\ outputs'[Len(outputs')].kind = "send"
               /\ outputs'[Len(outputs')].text = Resolved
          ELSE outputs' = outputs
      ]_vars

\* C16 (amended): at the end of a session the resolved text is, on the
\* native platform, the committed segment when there is one and else the
\* live transcript, trimmed; on the web, the trimmed committed buffer when
\* that is not blank and else the trimmed live transcript.  In manual mode,
\* when the cancel flag is not set, a non-empty resolved text is dispatched
\* as one send and an empty one dispatches nothing.  In hands-free mode the
\* end of the session dispatches nothing.  In both modes the screen stops
\* listening and the live transcript and the buffer are emptied.
C16_EndResolvesAndDispatches ==
    [][ (ev'.name = "end" /\ ~willCancelRef) =>
          LET r == IF env = "native"
                   THEN Trim(IF nativeFinalRef # <<>> THEN nativeFinalRef
                             ELSE liveTranscriptRef)
                   ELSE IF Trim(webFinalRef) # <<>> THEN Trim(webFinalRef)
                        ELSE Trim(liveTranscriptRef)
          IN  /\ outputs' = IF ~handsFreeRef /\ r # <<>> THEN SentAtEnd(r)
                            ELSE outputs
              /\ input' = input
              /\ ~listening'
              /\ BuffersEmpty(liveTranscript', liveTranscriptRef',
                              nativeFinalRef', webFinalRef')
      ]_vars

\* A manual session on the native platform has just ended with a committed
\* segment, and the segment, trimmed, was sent by the end handler.
C16_Witness ==
    /\ ev.name = "end"
    /\ ~ev.handsFree
    /\ env = "native"
    /\ ~listening
    /\ outputs # <<>>
    /\ LastOutput.kind = "send"
    /\ LastOutput.by = "end"
    /\ LastOutput.text = <<"b">>

C18_RequestsCarryLatestId ==
    /\ \A r \in inflight : r.known # "" => r.conversationId = r.known
    /\ \A s \in SessionIds :
           received[s] # "" => sessions[s].serverConversationId = received[s]


\* The step in which send resumes for r after chat resolved.
ResolveStep(r) ==
    /\ sev'.name = "resolve"
    /\ sev'.id = r.id
    /\ r \in inflight
    /\ inflight' = inflight \ {r}

C20_HealthNeverThrows ==
    /\ hPc # "threw"
    /\ hPc = "returned" =>
          /\ ~hRet.threw
          /\ hReq.method = "GET"
          /\ hReq.url = client.baseUrl \o <<"/", "models">>
          /\ hRet.value = (/\ hRes.kind = "response"
                           /\ hRes.status >= 200
                           /\ hRes.status <= 299)

\* The request failed on the network and health returned false.
C20_Witness ==
    /\ hPc = "returned"
    /\ hRes.kind = "network"
    /\ hRet = [threw |-> FALSE, value |-> FALSE]


\* ------------------------------------------------------------------------
\* Claims about killSwitch
\* ------------------------------------------------------------------------

\* The result says success false and carries a non-empty error.
KillFailed ==
    /\ ~kRet.success
    /\ kRet.error \notin Falsy

\* C21, as stated: killSwitch never throws; a non-2xx response, an
\* unparseable response body and a thrown network error all yield success
\* false with a non-empty error, and success true is returned only for a
\* 2xx response.
C21_Original ==
    /\ kPc # "threw"
    /\ kPc = "returned" =>
          /\ (kRes.kind = "response" /\ ~Ok(kRes.status)) => KillFailed
          /\ (kRes.kind = "response" /\ kRes.body = "unparseable") => KillFailed
          /\ kRes.kind = "failure" => KillFailed
          /\ kRet.success => (kRes.kind = "response" /\ Ok(kRes.status))

\* C21, amended: killSwitch never throws; it posts {} to the emergency-stop
\* endpoint; a non-2xx response and a thrown network error yield success
\* false with a non-empty error; every 2xx response yields success true
\* with a non-empty message, also when its body cannot be parsed, because
\* an unparseable body is read as an empty object.
C21_KillSwitchNeverThrows ==
    /\ kPc # "threw"
    /\ kPc = "returned" =>
          /\ ~kRet.threw
          /\ kReq.method = "POST"
          /\ kReq.body = "{}"
          /\ kReq.url = client.baseUrl \o <<"/", "emergency-stop">>
          /\ kRet.success = (/\ kRes.kind = "response"
                             /\ kRes.status >= 200
                             /\ kRes.status <= 299)
          /\ ~kRet.success => kRet.error \notin Falsy
          /\ kRet.success => kRet.message \notin Falsy
          /\ (kRes.kind = "response" /\ kRes.body = "unparseable") =>
                kRet = IF kRes.status >= 200 /\ kRes.status <= 299
                       THEN KillResult(FALSE, TRUE, "undefined",
                                       "Emergency stop executed", "undefined")
                       ELSE KillResult(FALSE, FALSE, KillFailedText[kRes.status],
                                       "undefined", "undefined")

\* A 2xx response whose body is not JSON was answered with success.
C21_Witness ==
    /\ kPc = "returned"
    /\ kRes.kind = "response"
    /\ kRes.status = 200
    /\ kRes.body = "unparseable"
    /\ kRet.success


\* ------------------------------------------------------------------------
\* Claims about the event-stream parsers
\* ------------------------------------------------------------------------

\* What the incremental reader yields when the whole body arrives in one
\* read.
OneChunk == DrainBuffer(ParseState(convIn), resp.body).st

\* C22: with an incremental reader the result of chat does not depend on how
\* the body is split across reads: after any number of reads, handling
\* what is buffered together with what is still to come yields the content,
\* the onToken calls and the conversation id of the one-chunk run, and these
\* are what chat returns.
C22_ChunkingDoesNotMatter ==
    /\ (pc = "reading" /\ resp.reader) =>
          LET d == DrainBuffer(ps, buffer \o rest).st
              one == OneChunk
          IN  /\ d.finalText = one.finalText
              /\ d.tokens = one.tokens
              /\ d.cid = one.cid
    /\ (pc = "done" /\ resp.reader) =>
          LET one == OneChunk
          IN  /\ ret.content = one.finalText
              /\ ps.tokens = one.tokens
              /\ ret.conversationId = one.cid

\* An event was handled and the next read ended inside the blank-line
\* delimiter of the following one: its first line break is buffered, its
\* second is still to come.
C22_Witness ==
    /\ pc = "reading"
    /\ ps.tokens # <<>>
    /\ buffer # <<>>
    /\ buffer[Len(buffer)] = "LF"
    /\ rest # <<>>
    /\ Head(rest) = "LF"
    /\ OneChunk.tokens # ps.tokens


\* The payload of a handled line has no delta content and has a string
\* message content.
MessageOnly(entry) ==
    /\ entry.parsed
    /\ ParseJSON(entry.line).obj.delta = <<>>
    /\ ParseJSON(entry.line).obj.msgStr
    /\ ParseJSON(entry.line).obj.msg # <<>>

\* C23: in both event-stream cases, when a parsed payload has no
\* choices[0].delta.content and has choices[0].message.content, the message
\* content is taken as the token, appended to the content and passed to
\* onToken.
C23_MessageContentFallback ==
    resp.sse =>
        \A i \in 1..Len(ps.log) :
            MessageOnly(ps.log[i]) =>
                LET msg == ParseJSON(ps.log[i].line).obj.msg
                IN  /\ ps.log[i].token = msg
                    /\ \E j \in 1..Len(ps.tokens) : ps.tokens[j] = msg


\* The body holds no termination marker.
NoMarker(body) == \A i \in 1..Len(body) : body[i] \notin {"DONE", "QDONE"}

\* Every event of a body, the last one included whether or not a blank line
\* follows it, handled line by line as the incremental reader handles the
\* lines of an event.
RECURSIVE ReaderEvents(_, _)
ReaderEvents(st, events) ==
    IF events = <<>> \/ st.done THEN st
    ELSE LET chunk == Trim(Head(events))
         IN  ReaderEvents(IF chunk = <<>> THEN st
                          ELSE ReaderLines(st, ReaderSplitLines(chunk)),
                          Tail(events))

\* C24: when an event-stream body ends without a termination marker, chat
\* does not fail and returns the text accumulated from every event of the
\* body.
C24_EndWithoutMarkerReturnsAll ==
    (resp.sse /\ Ok(resp.status) /\ NoMarker(resp.body)) =>
        /\ pc # "failed"
        /\ pc = "done" =>
              ret.content =
                 IF resp.reader
                 THEN ReaderEvents(ParseState(convIn), Split("blank", resp.body)).finalText
                 ELSE ChatFallback(resp.body, convIn).finalText


\* The line holds a payload that is neither JSON nor the termination marker.
IsBadLine(l) ==
    LET t == Trim(StripData(l))
    IN  t # <<>> /\ ~IsDone(t) /\ ~ParseJSON(t).ok

\* The lines of a body, all but the last ended by a line break, put
\* together again without those that are not JSON; such a line goes with
\* the line break that ends it.
RECURSIVE JoinGoodLines(_)
JoinGoodLines(ls) ==
    IF Len(ls) = 1 THEN (IF IsBadLine(Head(ls)) THEN <<>> ELSE Head(ls))
    ELSE (IF IsBadLine(Head(ls)) THEN <<>> ELSE Head(ls) \o <<"LF">>)
         \o JoinGoodLines(Tail(ls))

WithoutNoise(body) == JoinGoodLines(Split("lf", body))

\* What the path taken yields for the body without those lines.
AsIfNoiseAbsent ==
    IF resp.reader
    THEN DrainBuffer(ParseState(convIn), WithoutNoise(resp.body)).st
    ELSE ChatFallback(WithoutNoise(resp.body), convIn)

\* The handled line is neither JSON nor the termination marker.
BadLine(entry) == ~entry.parsed /\ ~IsDone(entry.line)

\* C25: a payload line that is not valid JSON is skipped without failing the
\* request: the line yields no token and no conversation id, and the
\* content, the onToken calls and the conversation id chat returns are
\* those it returns for the same body without that line.
C25_BadLineIsSkipped ==
    (resp.sse /\ Ok(resp.status)) =>
        /\ pc # "failed"
        /\ \A i \in 1..Len(ps.log) :
               BadLine(ps.log[i]) => ps.log[i].token = <<>> /\ ps.log[i].cid = ""
        /\ pc = "done" =>
               LET clean == AsIfNoiseAbsent
               IN  /\ ret.content = clean.finalText
                   /\ ps.tokens = clean.tokens
                   /\ ret.conversationId = clean.cid

\* chat returned for a body in which a line that is not JSON was handled
\* and a later line yielded a token.
C25_Witness ==
    /\ pc = "done"
    /\ resp.sse
    /\ \E i \in 1..Len(ps.log) : \E j \in (i + 1)..Len(ps.log) :
          /\ BadLine(ps.log[i])
          /\ ps.log[j].parsed
          /\ ps.log[j].token # <<>>
    /\ ps.tokens # <<>>


\* C26: the body of the chat request contains conversation_id exactly when a
\* non-empty conversationId was passed to chat, and then with that value.
C26_ConversationIdInRequest ==
    pc # "idle" =>
        /\ request.hasConversationId = (convIn # "")
        /\ request.hasConversationId => request.conversation_id = convIn

\* chat was called with a conversation id and the request carries it.
C26_Witness ==
    /\ pc = "fetching"
    /\ convIn = "c0"
    /\ request = [hasConversationId |-> TRUE, conversation_id |-> "c0"]


\* ------------------------------------------------------------------------
\* Claims about the transcript buffers and the listeners
\* ------------------------------------------------------------------------

\* The committed-segment buffer of the provider in use.
Committed == IF env = "native" THEN nativeFinalRef ELSE webFinalRef

\* C27: in manual mode the committed-segment buffer accumulates the final
\* segments in arrival order on both providers: each final segment is put
\* behind what the buffer holds, so that the text resolved at the end is the
\* concatenation of all of them.
C27_FinalsAccumulateInOrder ==
    [][(/\ nResults' = nResults + 1
        /\ ev'.name = "result"
        /\ ev'.final
        /\ ev'.text # <<>>
        /\ ~handsFreeRef)
       => Committed' = Committed \o ev'.text]_vars


\* The live transcript and both committed buffers are empty.
TranscriptsEmpty ==
    /\ liveTranscript = <<>>
    /\ liveTranscriptRef = <<>>
    /\ nativeFinalRef = <<>>
    /\ webFinalRef = <<>>

\* C28: no transcript text leaks between capture attempts: on the mounted
\* screen, whenever no recognizer is active, after a session has finalized
\* with whatever outcome, the live transcript and the committed buffers are
\* empty, and every start of the recognizer begins with them empty.
C28_NoLeakBetweenAttempts ==
    /\ [](mounted /\ rec = "off" => TranscriptsEmpty)
    /\ [][nRecStarts' = nRecStarts + 1 => TranscriptsEmpty']_vars

\* A second capture is running after an earlier one dispatched its text,
\* and nothing of the earlier one is left in the buffers.
C28_Witness ==
    /\ nRecStarts = 2
    /\ rec = "running"
    /\ outputs # <<>>
    /\ TranscriptsEmpty

\* A step that ends a start attempt: the asynchronous part of startRecording
\* returns, or the whole of it ran within the step that called it.
AttemptEnds ==
    /\ startPc' = "none"
    /\ startPc # "none" \/ nStarts' = nStarts + 1

\* C29: once a start attempt is over the re-entrancy guard is released,
\* whichever way it ended, and an attempt that left no recognizer started
\* leaves the screen not listening, so the guard of the next start passes;
\* every start accepted on a native platform goes through the import of the
\* provider again, and the native recognizer is started only from the
\* permission steps of the attempt, with the permission granted.
C29_GuardReleasedAfterEveryAttempt ==
    /\ [](startPc = "none" => ~startingRef)
    /\ [][AttemptEnds /\ rec' = rec => ~listening' /\ ~startingRef']_vars
    /\ [][nStarts' = nStarts + 1 /\ IsNativePlatform => startPc' = "import"]_vars
    /\ [][nRecStarts' = nRecStarts + 1 /\ IsNativePlatform =>
             /\ startPc \in {"getPerm", "reqPerm"}
             /\ perm' = "granted"]_vars

\* A second attempt is asking for the permission again after the first was
\* refused.
C29_Witness ==
    /\ env = "native"
    /\ perm = "denied"
    /\ nStarts = 2
    /\ startPc = "reqPerm"
    /\ startingRef
    /\ rec = "off"

\* No capture session: nothing is starting, the screen is not listening and
\* the recognizer is off.
Idle ==
    /\ startPc = "none"
    /\ ~startingRef
    /\ ~listening
    /\ rec = "off"

\* The handler that ran last was given a recognizer event.
HandlerRan == ev.name \in {"result", "end", "endAgain"}

\* C30: the recognizer's listeners are released when the session is over
\* (the screen is back to idle) and when the screen is torn down, and no
\* recognizer event reaches a handler once the session has ended or the
\* screen is gone.  (One set of native listeners at most is registered:
\* cleanupNativeSubs runs before the listeners are added.)
C30_SubscriptionsReleasedWithSession ==
    /\ Idle => ~srSubsRef
    /\ ~mounted => ~srSubsRef
    /\ HandlerRan => mounted
    /\ ev.name # "endAgain"

\* The step calls send with a text that is not blank: client.chat is
\* called in that step, and the request is in flight when the step ends.
SendDispatched ==
    /\ Len(outputs') = Len(outputs) + 1
    /\ outputs'[Len(outputs')].kind = "send"

\* A capture session is unresolved: a start is in progress, the screen is
\* listening, or the recognizer has not ended.
CaptureUnresolved == startingRef \/ startPc # "none" \/ listening \/ rec # "off"

\* C31: a chat request is initiated only after the capture session has
\* resolved: at the moment a request is started, when it is in flight, no
\* capture session is requesting or listening.
C31_NoRequestDuringCapture ==
    [][SendDispatched => ~CaptureUnresolved']_vars

\* ------------------------------------------------------------------------
\* Claims about the persisted state
\* ------------------------------------------------------------------------

\* The stored value is missing or is not JSON.
Unusable(raw) == NoRaw(raw) \/ ~Parses(raw)

\* loadSessions has run to its end.
SessionsLoaded == loadPc = "none" /\ stEv.name = "loaded"

\* C32: loading never fails on a missing or malformed stored value: once
\* loadConfig has resolved the configuration is the defaults when the
\* stored value is absent or is not JSON, and has every field of the
\* defaults whatever was stored; what loadSessionsFromStorage resolves
\* with is the empty list when the stored value is absent, is not JSON or
\* is not an array, and loadSessions then ends with the empty list and the
\* store no longer loading.
C32_LoadFallsBackToDefaults ==
    /\ ready =>
          /\ Unusable(storedConfig) => config = DEFAULTS
          /\ DOMAIN DEFAULTS \subseteq DOMAIN config
    /\ (loadPc = "read" /\ (Unusable(storedSessions) \/ storedSessions.kind # "array")) =>
          loaded = <<>>
    /\ SessionsLoaded =>
          /\ ~isLoading
          /\ sessionList = loaded
          /\ storedSessions = Stringify(loaded)

\* The configuration was loaded from text that is not JSON, and the
\* sessions from a value that is JSON and no array.
C32_Witness ==
    /\ ready
    /\ storedConfig.kind = "text"
    /\ config = DEFAULTS
    /\ SessionsLoaded
    /\ loaded = <<>>
    /\ sessionList = <<>>

\* ------------------------------------------------------------------------
\* Claims about overlapping sends
\* ------------------------------------------------------------------------

\* The step is the token callback or the final write of a call of send.
WritesOf(id) == sev'.id = id /\ sev'.name \in {"token", "resolve"}

\* The placeholders other calls of send appended to the transcript on screen.
PlaceholdersOfOthers(id) ==
    {j \in 1..Len(messages) :
        /\ messages[j].role = "assistant"
        /\ messages[j].owner # 0
        /\ messages[j].owner # id}

\* C33: when sends overlap, the tokens a request delivers and its final
\* replacement update only the assistant message appended as that request's
\* own placeholder, never the placeholder of another request.
C33_WritesOwnPlaceholderOnly ==
    [][\A r \in inflight :
         WritesOf(r.id) =>
             /\ Len(messages') = Len(messages)
             /\ \A j \in PlaceholdersOfOthers(r.id) : messages'[j] = messages[j]]_vars

\* The calls of send whose chat has neither resolved nor thrown yet.
InFlightIds == {r.id : r \in inflight}

\* The assistant messages with no content that a call of send appended.
EmptyPlaceholders ==
    {j \in 1..Len(messages) :
        /\ messages[j].role = "assistant"
        /\ messages[j].owner # 0
        /\ messages[j].content = <<>>}

\* C34: after a send has completed, whether chat resolved or threw, the
\* transcript holds no assistant message with empty content left over from
\* that send: every empty placeholder belongs to a send still in flight.
C34_NoEmptyPlaceholderLeft ==
    \A j \in EmptyPlaceholders : messages[j].owner \in InFlightIds

\* The step is a call of send that reached chat.
SendCalled == nSends' = nSends + 1

\* C35: the message list send passes to chat is the whole current
\* transcript in insertion order followed by the new user message, also when
\* send is called from a recognizer callback attached before earlier
\* exchanges were added to the transcript.
C35_RequestCarriesWholeTranscript ==
    [][SendCalled =>
          sev'.sent = SubSeq(messages', 1, Len(messages) + 1)]_vars

\* ------------------------------------------------------------------------
\* Claims about the listening flag and the stop request
\* ------------------------------------------------------------------------

\* startRecording has been entered and has not left yet.
StartInProgress == startingRef \/ startPc # "none"

\* C36: the listening flag agrees with the recognizer: whenever the
\* recognizer is running the flag is true, and whenever the flag is true the
\* recognizer is running or a start is in progress, on a mounted screen.
C36_ListeningAgreesWithRecognizer ==
    mounted =>
        /\ rec # "off" => listening
        /\ listening => (rec # "off" \/ StartInProgress)

\* A start that failed: the permission was asked for and refused, and
\* startRecording has left.
C36_Witness ==
    /\ mounted
    /\ nStarts > 0
    /\ perm = "denied"
    /\ ~StartInProgress
    /\ ~listening
    /\ rec = "off"

\* Nothing is recording: the flag is clear, the recognizer is off and no
\* start is on its way.
NothingRecording == ~listening /\ rec = "off" /\ ~StartInProgress

\* The step takes stopRecordingAndHandle past its guards, to the import of
\* the native module, whose continuation calls
\* ExpoSpeechRecognitionModule.stop().
StopPassesGuard == env = "native" /\ stopPc = "none" /\ stopPc' = "import"

\* C37: a stop request made when nothing is recording, or while another
\* stop is in progress, invokes no recognizer stop: it does not get past the
\* guards of stopRecordingAndHandle, and it leaves the listening flag, the
\* live transcript and the committed buffer unchanged.
C37_IdleStopDoesNothing ==
    [][(mounted /\ (NothingRecording \/ stoppingRef)) =>
          /\ ~StopPassesGuard
          /\ (timers' # timers =>
                 UNCHANGED <<listening, liveTranscript, nativeFinalRef, webFinalRef>>)]_vars

\* ------------------------------------------------------------------------
\* Claims about the session store
\* ------------------------------------------------------------------------

\* C38: after any sequence of loadSessions, createNewSession, deleteSession
\* and clearAllSessions, and of setCurrentSession called with the id of an
\* existing session or null, currentSessionId is null or the id of a session
\* of the list.
C38_CurrentSessionIsListed ==
    currentId = "none" \/ currentId \in Ids(sessionList)

\* C39: a session made by createNewSession stays in the list until
\* deleteSession or clearAllSessions removes it, also when it was made while
\* loadSessions was in progress: the list the load delivers does not drop
\* it.
C39_CreatedSessionStays ==
    created \subseteq Ids(sessionList)

\* The operations that change the content of one session.
EditOperations ==
    {"addMessageToSession", "updateSessionMessages", "setServerConversationId"}

\* The step is one of them, called with the id stEv' holds.
EditStep == nAdded' = nAdded + 1 /\ stEv'.name \in EditOperations

\* C40: addMessageToSession, updateSessionMessages and
\* setServerConversationId change only the session whose id is given: every
\* other session keeps its messages and serverConversationId, the order of
\* the list is unchanged, and an unknown id changes nothing.
C40_OnlyTheGivenSessionChanges ==
    [][EditStep =>
          /\ Len(sessionList') = Len(sessionList)
          /\ \A i \in 1..Len(sessionList) :
                /\ sessionList'[i].id = sessionList[i].id
                /\ sessionList[i].id # stEv'.id => sessionList'[i] = sessionList[i]
          /\ stEv'.id \notin Ids(sessionList) =>
                UNCHANGED <<sessionList, storedSessions, currentId, storedCurrent>>]_vars

\* A message was added to one of two sessions, which holds it while the
\* other holds what it held.
C40_Witness ==
    /\ stEv = StoreEvent("addMessageToSession", "s2")
    /\ sessionList = << WithMessage(StoredS2, "assistant", AddedContent), StoredS1 >>

=============================================================================
